---- MODULE Spec2Model ----
(***************************************************************************)
(* A model of spmpy, the decoder of Bruker/Veeco "CIAO" SPM files.         *)
(*                                                                         *)
(* Text is modelled character by character: a Python str is a sequence of  *)
(* one-character strings, so that the regular expressions, the stripping   *)
(* and the formatting of the program are computed, not assumed.            *)
(* Python's None is the one-element sequence None, which no text equals.   *)
(***************************************************************************)
EXTENDS Integers, Sequences, FiniteSets, TLC

VARIABLES
    \* CIAOParameter.from_string / ciao_string, applied to one line
    ciao_string,    \* the input line (a str)
    ppc,            \* position of the caller: "start", "parsed", "printed", "reparsed"
    param,          \* the value or exception of from_string(ciao_string)
    printed,        \* param.ciao_string
    reparsed,       \* the value or exception of from_string(printed)
    \* SPMFile(bytestring): parse_header, then extract_ciao_images
    spmfile,     \* the file's bytes
    fpc,            \* position of the constructor: "init", "parse", "version",
                    \* "extract", "done", "raised"
    header_lines,   \* parse_header: header_bytestring.splitlines()
    line_no,        \* parse_header: the number of the line the loop is at
    parse,             \* parse_header: header, current_section, current_header, n_image
    header,         \* SPMFile.header, once parse_header has returned
    images,         \* SPMFile.images and the dictionary extract_ciao_images builds
    image_no,       \* extract_ciao_images: the loop's i
    exc,            \* the exception that left the constructor, if any
    \* CIAOImage(file_bytes, file_header, image_number), then its property image
    arg_file_bytes,     \* the file's bytes
    arg_file_header,    \* the header parse_header returned for them
    arg_image_number,   \* the index asked for
    ipc,            \* "new", then "built" or "raised", then "scaled" or "failed"
    ciao_image,     \* the CIAOImage object, or the exception of __init__
    z_height,       \* the array the property image returns, or its exception
    rsub_result,    \* a number k and what k - img returned or raised
    rtruediv_result,    \* a number k and what k / img returned or raised
    \* parse_parameter_value(value_str)
    arg_value_str,  \* the text handed to the value parser
    vpc,            \* "call", then "returned" or "raised"
    parsed_value,   \* the value returned, or the exception raised
    \* the images of one file decoded one by one, in any order
    buffer,         \* the file's bytes, shared by every decode
    parsed_header,  \* the header parse_header returned for them, shared as well
    image_objects,  \* image number -> the CIAOImage object, its exception, or pending
    image_arrays    \* image number -> the array of its property image, or pending

pvars == <<ciao_string, ppc, param, printed, reparsed>>

fvars == <<spmfile, fpc, header_lines, line_no, parse, header, images, image_no, exc>>

ivars == <<arg_file_bytes, arg_file_header, arg_image_number, ipc, ciao_image, z_height,
           rsub_result, rtruediv_result>>

vvars == <<arg_value_str, vpc, parsed_value>>

dvars == <<buffer, parsed_header, image_objects, image_arrays>>

vars == <<ciao_string, ppc, param, printed, reparsed,
          spmfile, fpc, header_lines, line_no, parse, header, images, image_no, exc,
          arg_file_bytes, arg_file_header, arg_image_number, ipc, ciao_image, z_height,
          rsub_result, rtruediv_result,
          arg_value_str, vpc, parsed_value,
         buffer, parsed_header, image_objects, image_arrays>>

----------------------------------------------------------------------------
(* Characters and strings *)

None == <<"<None>">>

Digits == {"0", "1", "2", "3", "4", "5", "6", "7", "8", "9"}

Letters == {"a", "b", "c", "d", "e", "f", "g", "h", "i", "j", "k", "l", "m",
            "n", "o", "p", "q", "r", "s", "t", "u", "v", "w", "x", "y", "z",
            "A", "B", "C", "D", "E", "F", "G", "H", "I", "J", "K", "L", "M",
            "N", "O", "P", "Q", "R", "S", "T", "U", "V", "W", "X", "Y", "Z"}

\* \d, \w and \s of Python's re, on the characters the model uses
IsDigit(c) == c \in Digits
IsWord(c) == c \in Digits \cup Letters \cup {"_"}
IsSpace(c) == c \in {" ", "\t"}

\* s[i:] with a 1-based i
From(s, i) == SubSeq(s, i, Len(s))

\* str.strip() and str.strip(chars)
RECURSIVE LStripChars(_, _)
LStripChars(s, cs) ==
    IF s # <<>> /\ s[1] \in cs THEN LStripChars(Tail(s), cs) ELSE s

RECURSIVE RStripChars(_, _)
RStripChars(s, cs) ==
    IF s # <<>> /\ s[Len(s)] \in cs THEN RStripChars(SubSeq(s, 1, Len(s) - 1), cs) ELSE s

StripChars(s, cs) == RStripChars(LStripChars(s, cs), cs)

Strip(s) == StripChars(s, {" ", "\t"})

\* the largest element of a non-empty set of integers
SetMax(S) == CHOOSE x \in S : \A y \in S : y <= x

\* the decimal digit c as a number
DigitVal(c) ==
    CASE c = "0" -> 0 [] c = "1" -> 1 [] c = "2" -> 2 [] c = "3" -> 3 [] c = "4" -> 4
      [] c = "5" -> 5 [] c = "6" -> 6 [] c = "7" -> 7 [] c = "8" -> 8 [] c = "9" -> 9

DigitChar(n) == <<"0", "1", "2", "3", "4", "5", "6", "7", "8", "9">>[n + 1]

----------------------------------------------------------------------------
(* Python values.  One record shape for all of them:                        *)
(*   k  the type: "none", "str", "int", "float", "qty", "list", "qlist",    *)
(*      "date", or the class of a raised exception;                         *)
(*   s  the text of a str, the unit of a quantity, the message of an error; *)
(*   n, d  a number n / 10^d (d = 0 for an int), trailing zeros removed;    *)
(*   l  the numbers of a list, as <<n, d>> pairs.                            *)

PyVal(k, s, n, d, l) == [k |-> k, s |-> s, n |-> n, d |-> d, l |-> l]
PyNone == PyVal("none", <<>>, 0, 0, <<>>)
PyStr(s) == PyVal("str", s, 0, 0, <<>>)
PyInt(n) == PyVal("int", <<>>, n, 0, <<>>)
PyFloat(n, d) == PyVal("float", <<>>, n, d, <<>>)
PyQuantity(n, d, u) == PyVal("qty", u, n, d, <<>>)
PyList(l) == PyVal("list", <<>>, 0, 0, l)
PyQuantityList(l, u) == PyVal("qlist", u, 0, 0, l)
PyDate(s) == PyVal("date", s, 0, 0, <<>>)
Raise(cls, msg) == PyVal(cls, msg, 0, 0, <<>>)

Exceptions == {"ValueError", "KeyError", "IndexError", "TypeError", "AttributeError",
               "ZeroDivisionError", "struct.error", "UndefinedUnitError"}
IsRaise(v) == v.k \in Exceptions

\* an optional str (None or text) as a value, and back
OfOpt(s) == IF s = None THEN PyNone ELSE PyStr(s)

\* bool(v)
Truthy(v) ==
    CASE v.k = "none" -> FALSE
      [] v.k = "str" -> v.s # <<>>
      [] v.k \in {"int", "float", "qty"} -> v.n # 0
      [] v.k = "list" -> v.l # <<>>
      [] OTHER -> TRUE

Abs(n) == IF n < 0 THEN -n ELSE n

RECURSIVE Pow10(_)
Pow10(k) == IF k = 0 THEN 1 ELSE 10 * Pow10(k - 1)

\* the decimal digits of a natural number
RECURSIVE NatStr(_)
NatStr(n) == IF n < 10 THEN <<DigitChar(n)>> ELSE NatStr(n \div 10) \o <<DigitChar(n % 10)>>

\* str(n) of an int
IntStr(n) == IF n < 0 THEN <<"-">> \o NatStr(-n) ELSE NatStr(n)

\* n as exactly d digits, zero-padded on the left
RECURSIVE PadStr(_, _)
PadStr(n, d) == IF d = 0 THEN <<>> ELSE PadStr(n \div 10, d - 1) \o <<DigitChar(n % 10)>>

\* repr of the float n / 10^d, in the range where Python prints positionally
\* (1e-4 <= |x| < 1e16, or 0)
FloatStr(n, d) ==
    (IF n < 0 THEN <<"-">> ELSE <<>>)
    \o NatStr(Abs(n) \div Pow10(d)) \o <<".">>
    \o (IF d = 0 THEN <<"0">> ELSE PadStr(Abs(n) % Pow10(d), d))

\* n / 10^d with the trailing zeros of the fraction removed
RECURSIVE Normal(_, _)
Normal(n, d) == IF d > 0 /\ n % 10 = 0 THEN Normal(n \div 10, d - 1) ELSE <<n, d>>

----------------------------------------------------------------------------
(* utils.py: the value parser *)

\* the first index >= i of t that holds no digit (Len(t) + 1 when there is none)
RECURSIVE DigitRunEnd(_, _)
DigitRunEnd(t, i) == IF i <= Len(t) /\ IsDigit(t[i]) THEN DigitRunEnd(t, i + 1) ELSE i

\* v bound to a name: Op(v)
Bind(v, Op(_)) == Op(v)

\* the positions of the parts of t read as [+-]?\d+\.?\d*(?:[eE][+-]\d+)? :
\* ok says whether the whole of t is such a number
NumberParts(t) ==
    Bind(IF Len(t) >= 1 /\ t[1] \in {"+", "-"} THEN 2 ELSE 1, LAMBDA i0 :
    Bind(DigitRunEnd(t, i0), LAMBDA i1 :
    Bind(IF i1 <= Len(t) /\ t[i1] = "." THEN i1 + 1 ELSE i1, LAMBDA i2 :
    Bind(DigitRunEnd(t, i2), LAMBDA i3 :
    Bind(i3 + 1 <= Len(t) /\ t[i3] \in {"e", "E"} /\ t[i3 + 1] \in {"+", "-"},
         LAMBDA hasExp :
    Bind(IF hasExp THEN DigitRunEnd(t, i3 + 2) ELSE i3, LAMBDA i4 :
        [ok |-> i1 > i0 /\ (IF hasExp THEN i4 > i3 + 2 /\ i4 = Len(t) + 1
                                      ELSE i3 = Len(t) + 1),
         neg |-> Len(t) >= 1 /\ t[1] = "-",
         int |-> SubSeq(t, i0, i1 - 1),
         frac |-> SubSeq(t, i2, i3 - 1),
         hasExp |-> hasExp,
         expNeg |-> hasExp /\ t[i3 + 1] = "-",
         exp |-> IF hasExp THEN SubSeq(t, i3 + 2, i4 - 1) ELSE <<>>]))))))

IsNumber(t) == NumberParts(t).ok

\* the value of a run of digits
RECURSIVE DigitsVal(_)
DigitsVal(t) == IF t = <<>> THEN 0 ELSE 10 * DigitsVal(SubSeq(t, 1, Len(t) - 1)) + DigitVal(t[Len(t)])

\* the number m * 10^e of p = NumberParts(t), with d digits in its fraction
FloatOf(m, d) == IF d < 0 THEN <<m * Pow10(-d), 0>> ELSE Normal(m, d)

\* float(t) for a t that IsNumber: the pair <<n, d>> of the value n / 10^d
ToFloat(t) ==
    Bind(NumberParts(t), LAMBDA p :
        FloatOf(DigitsVal(p.int \o p.frac) * (IF p.neg THEN -1 ELSE 1),
                Len(p.frac) - DigitsVal(p.exp) * (IF p.expNeg THEN -1 ELSE 1)))

\* int(t) for a t that IsNumber and holds no '.': Python's int() takes no exponent
ToInt(t) ==
    Bind(NumberParts(t), LAMBDA p :
        IF p.hasExp
        THEN Raise("ValueError", t)
        ELSE PyInt(DigitsVal(p.int) * (IF p.neg THEN -1 ELSE 1)))

\* the first index of character c in s, or 0
RECURSIVE IndexOf(_, _, _)
IndexOf(s, c, i) == IF i > Len(s) THEN 0 ELSE IF s[i] = c THEN i ELSE IndexOf(s, c, i + 1)

Contains(s, c) == \E i \in 1..Len(s) : s[i] = c

\* [^\d:]+ on the whole of u
IsUnitText(u) == u # <<>> /\ \A i \in 1..Len(u) : ~IsDigit(u[i]) /\ u[i] # ":"

\* ' 1?[^\d:]+' on the whole of rest
IsUnitPart(rest) ==
    /\ rest # <<>>
    /\ rest[1] = " "
    /\ IF Len(rest) >= 2 /\ rest[2] = "1"
       THEN IsUnitText(From(rest, 3))
       ELSE IsUnitText(From(rest, 2))

\* RE_NUMERICAL.match(s) with the number in s[:e]
NumericalAt(s, e) ==
    IF ~IsNumber(SubSeq(s, 1, e)) THEN [ok |-> FALSE, g1 |-> None, g2 |-> None]
    ELSE IF e = Len(s) THEN [ok |-> TRUE, g1 |-> SubSeq(s, 1, e), g2 |-> None]
    ELSE IF IsUnitPart(From(s, e + 1))
    THEN [ok |-> TRUE, g1 |-> SubSeq(s, 1, e), g2 |-> From(s, e + 1)]
    ELSE [ok |-> FALSE, g1 |-> None, g2 |-> None]

\* RE_NUMERICAL.match(s): the number ends at the first space or at the end, and
\* what follows is empty or ' 1?[^\d:]+'
RE_NUMERICAL(s) ==
    Bind(IndexOf(s, " ", 1), LAMBDA sp : NumericalAt(s, IF sp = 0 THEN Len(s) ELSE sp - 1))

\* str.replace of one character by a string
RECURSIVE ReplaceChar(_, _, _)
ReplaceChar(s, c, by) ==
    IF s = <<>> THEN <<>>
    ELSE (IF s[1] = c THEN by ELSE <<s[1]>>) \o ReplaceChar(Tail(s), c, by)

\* the unit symbols the registry knows (pint's own, and those utils.py defines)
ureg == {<<"V">>, <<"n", "m">>, <<"m">>, <<"n", "m", "/", "V">>, <<"V", "/", "L", "S", "B">>,
         <<"L", "S", "B">>, <<"H", "z">>, <<"l", "o", "g", "_", "V">>,
         <<"l", "o", "g", "_", "P", "a">>, <<"A", "r", "b">>}

\* ureg.Quantity(float(num), unit): the quantity, or UndefinedUnitError
Quantity(num, unit) ==
    IF Strip(unit) \in ureg
    THEN Bind(ToFloat(num), LAMBDA f : PyQuantity(f[1], f[2], Strip(unit)))
    ELSE Raise("UndefinedUnitError", unit)

\* whether '[eE][+-]\d+' can be read at index p of s
HasExponentAt(s, p) ==
    /\ p + 2 <= Len(s)
    /\ s[p] \in {"e", "E"}
    /\ s[p + 1] \in {"+", "-"}
    /\ IsDigit(s[p + 2])

\* <<p + 1, p>> when a space stands at p (the greedy ' ?' takes it first), else <<p>>
WithSpace(s, p) == IF p <= Len(s) /\ s[p] = " " THEN <<p + 1, p>> ELSE <<p>>

\* the ends of an item whose sign ends before i0, digits before r1, fraction before
\* r2 and exponent before r3
ItemEndsAt(s, i, i0, r1, r2, r3) ==
    IF (i > 1 /\ IsDigit(s[i - 1])) \/ r1 = i0 THEN <<>>
    ELSE (IF r3 > r2 THEN WithSpace(s, r3) ELSE <<>>)
         \o WithSpace(s, r2)
         \o (IF r1 <= Len(s) /\ s[r1] = "." /\ r2 > r1 + 1 THEN <<r1 + 1>> ELSE <<>>)
         \o (IF r1 <= Len(s) /\ s[r1] = "." THEN <<r1>> ELSE <<>>)

\* One item '(?<!\d)[+-]?\d+\.?\d*(?:[eE][+-]\d+)? ?' of RE_MULTIPLE_NUMERICAL read at
\* index i of s: the indices where it can end, in the order the backtracking matcher
\* tries them.  An end that leaves a digit next to a digit is left out: neither the
\* next item (its lookbehind) nor the unit text can go on from there.
ItemEnds(s, i) ==
    Bind(IF i <= Len(s) /\ s[i] \in {"+", "-"} THEN i + 1 ELSE i, LAMBDA i0 :
    Bind(DigitRunEnd(s, i0), LAMBDA r1 :
    Bind(IF r1 <= Len(s) /\ s[r1] = "." THEN DigitRunEnd(s, r1 + 1) ELSE r1, LAMBDA r2 :
        ItemEndsAt(s, i, i0, r1, r2,
                   IF HasExponentAt(s, r2) THEN DigitRunEnd(s, r2 + 2) ELSE r2))))

\* '([^\d:]+)?$' read at index j of s
UnitTail(s, j) == j = Len(s) + 1 \/ IsUnitText(From(s, j))

\* The index after group 1 of RE_MULTIPLE_NUMERICAL when its items start at i, found
\* as the matcher finds it (another item first, then the unit text), or 0
RECURSIVE ItemsEnd(_, _)
RECURSIVE FirstEnd(_, _, _)
ItemsEnd(s, i) == FirstEnd(s, ItemEnds(s, i), 1)
FirstEnd(s, ends, k) ==
    IF k > Len(ends) THEN 0
    ELSE Bind(ItemsEnd(s, ends[k]), LAMBDA more :
             IF more # 0 THEN more
             ELSE IF UnitTail(s, ends[k]) THEN ends[k]
             ELSE FirstEnd(s, ends, k + 1))

RE_MULTIPLE_NUMERICAL(s) ==
    Bind(ItemsEnd(s, 1), LAMBDA e :
        IF e = 0 THEN [ok |-> FALSE, g1 |-> None, g2 |-> None]
        ELSE [ok |-> TRUE, g1 |-> SubSeq(s, 1, e - 1),
              g2 |-> IF e = Len(s) + 1 THEN None ELSE From(s, e)])

\* the first run of non-space characters of t, which starts with one and ends
\* before index sp, and the runs behind it
RECURSIVE Split(_)
SplitAt(t, sp) ==
    IF t = <<>> THEN <<>>
    ELSE IF sp = 0 THEN <<t>>
    ELSE <<SubSeq(t, 1, sp - 1)>> \o Split(From(t, sp))

\* str.split(): the maximal runs of non-space characters
Split(s) ==
    Bind(LStripChars(s, {" ", "\t"}), LAMBDA t : SplitAt(t, IndexOf(t, " ", 1)))

\* str.split(sep) for a one-character sep
RECURSIVE SplitOn(_, _)
SplitOn(s, c) ==
    Bind(IndexOf(s, c, 1), LAMBDA i :
        IF i = 0 THEN <<s>> ELSE <<SubSeq(s, 1, i - 1)>> \o SplitOn(From(s, i + 1), c))

IsDigits(t, lo, hi) == Len(t) \in lo..hi /\ \A i \in 1..Len(t) : IsDigit(t[i])

Weekdays == {<<"M", "o", "n">>, <<"T", "u", "e">>, <<"W", "e", "d">>, <<"T", "h", "u">>,
             <<"F", "r", "i">>, <<"S", "a", "t">>, <<"S", "u", "n">>}
Months == {<<"J", "a", "n">>, <<"F", "e", "b">>, <<"M", "a", "r">>, <<"A", "p", "r">>,
           <<"M", "a", "y">>, <<"J", "u", "n">>, <<"J", "u", "l">>, <<"A", "u", "g">>,
           <<"S", "e", "p">>, <<"O", "c", "t">>, <<"N", "o", "v">>, <<"D", "e", "c">>}

\* a number of lo to hi digits with a value in range
IsField(t, lo, hi, range) == IsDigits(t, lo, hi) /\ DigitsVal(t) \in range

\* the fields f of a date text, with the fields hms of its time
IsDateFields(f, hms) ==
    /\ Len(f) = 6
    /\ Len(hms) = 3
    /\ IsField(hms[1], 1, 2, 1..12)
    /\ IsField(hms[2], 1, 2, 0..59)
    /\ IsField(hms[3], 1, 2, 0..61)
    /\ f[2] \in {<<"A", "M">>, <<"P", "M">>}
    /\ f[3] \in Weekdays
    /\ f[4] \in Months
    /\ IsField(f[5], 1, 2, 1..31)
    /\ IsDigits(f[6], 4, 4)

\* whether datetime.strptime(s, '%I:%M:%S %p %a %b %d %Y') succeeds, for names
\* written as the instrument writes them ("AM", "Tue", "Mar")
IsDate(s) ==
    Bind(Split(s), LAMBDA f : f # <<>> /\ IsDateFields(f, SplitOn(f[1], ":")))

\* [float(x) for x in values]: the <<n, d>> pairs, or <<>> with ok FALSE when a
\* float(x) raises
RECURSIVE Floats(_)
Floats(xs) ==
    IF xs = <<>> THEN [ok |-> TRUE, l |-> <<>>]
    ELSE Bind(Floats(Tail(xs)), LAMBDA rest :
             IF IsNumber(xs[1]) /\ rest.ok
             THEN [ok |-> TRUE, l |-> <<ToFloat(xs[1])>> \o rest.l]
             ELSE [ok |-> FALSE, l |-> <<>>])

\* the unit symbols of pint's application registry, which the bare Quantity(...) of
\* the list branch uses: it has none of the units utils.py defines on ureg
application_registry == ureg \ {<<"L", "S", "B">>, <<"V", "/", "L", "S", "B">>,
                                <<"l", "o", "g", "_", "V">>, <<"l", "o", "g", "_", "P", "a">>,
                                <<"A", "r", "b">>}

\* unit.replace('~m', 'µm'); the micro sign is written "µ" here as the token "mu"
RECURSIVE ReplaceTildeM(_)
ReplaceTildeM(u) ==
    IF Len(u) < 2 THEN u
    ELSE IF u[1] = "~" /\ u[2] = "m" THEN <<"mu", "m">> \o ReplaceTildeM(From(u, 3))
    ELSE <<u[1]>> \o ReplaceTildeM(Tail(u))

\* A few units appear as e.g. log(Pa), replace with log_Pa etc.
UnitName(unit) ==
    IF Contains(unit, "(")
    THEN ReplaceChar(ReplaceChar(unit, "(", <<"_">>), ")", <<>>)
    ELSE unit

\* the branch of a number with a unit: the quantity, or the text when the unit is
\* not recognized
ParseQuantity(value_str, match_numerical) ==
    Bind(Quantity(match_numerical.g1, UnitName(match_numerical.g2)), LAMBDA q :
        IF q.k = "UndefinedUnitError" THEN PyStr(value_str) ELSE q)

\* the branch of a number without unit
ParseNumber(value_str) ==
    IF ~Contains(value_str, ".")
    THEN ToInt(value_str)
    ELSE Bind(ToFloat(value_str), LAMBDA f : PyFloat(f[1], f[2]))

\* Quantity(values, unit) of the list branch
QuantityList(values, unit) ==
    IF Strip(unit) \in application_registry \cup {<<"mu", "m">>}
    THEN PyQuantityList(values, Strip(unit))
    ELSE Raise("UndefinedUnitError", unit)

\* the branch of a list of numbers, with the floats values of its items
ParseList(value_str, match_multiple_numerical, values) ==
    IF ~values.ok THEN Raise("ValueError", value_str)
    ELSE IF match_multiple_numerical.g2 # None
    THEN QuantityList(values.l, ReplaceTildeM(match_multiple_numerical.g2))
    ELSE PyList(values.l)

\* the branches behind the one of a number
ParseOther(value_str, match_multiple_numerical) ==
    IF match_multiple_numerical.ok
    THEN ParseList(value_str, match_multiple_numerical,
                   Floats(Split(match_multiple_numerical.g1)))
    ELSE IF IsDate(value_str) THEN PyDate(value_str)
    ELSE PyStr(StripChars(value_str, {"\""}))

\* parse_parameter_value behind value_str = value_str.strip()
ParseStripped(value_str, match_numerical) ==
    IF match_numerical.ok /\ match_numerical.g2 # None
    THEN ParseQuantity(value_str, match_numerical)
    ELSE IF match_numerical.ok
    THEN ParseNumber(value_str)
    ELSE ParseOther(value_str, RE_MULTIPLE_NUMERICAL(value_str))

parse_parameter_value(value_str_in) ==
    IF value_str_in = None THEN PyNone
    ELSE IF value_str_in = <<>> THEN PyStr(<<>>)
    ELSE Bind(Strip(value_str_in), LAMBDA value_str :
             ParseStripped(value_str, RE_NUMERICAL(value_str)))

----------------------------------------------------------------------------
(* ciaoparams.py: the parameter grammar *)

NoMatch == [ok |-> FALSE, group |-> None, param |-> None, type |-> None,
            softscale |-> None, hardscale |-> None, hardval |-> None]

\* the first of two attempts of the matcher that succeeds
FirstOk(first, second) == IF first.ok THEN first ELSE second

\* whether s holds c, or a white space, at index i
CharAt(s, i, c) == i <= Len(s) /\ s[i] = c

SpaceAt(s, i) == i <= Len(s) /\ IsSpace(s[i])

\* \s(?P<hardval>.*)$ read at index i
MatchHardval(s, i) ==
    IF SpaceAt(s, i)
    THEN [NoMatch EXCEPT !.ok = TRUE, !.hardval = From(s, i + 1)]
    ELSE NoMatch

\* (?:\((?P<hardscale>.*)\))? with its '(' at i and a ')' at one of ends
MatchHardscaleIn(s, i, ends) ==
    IF ends # {}
    THEN Bind(SetMax(ends), LAMBDA j :
             [MatchHardval(s, j + 1) EXCEPT !.hardscale = SubSeq(s, i + 1, j - 1)])
    ELSE MatchHardval(s, i)

\* (?:\((?P<hardscale>.*)\))? and what follows, read at index i
MatchHardscale(s, i) ==
    MatchHardscaleIn(s, i,
        IF CharAt(s, i, "(")
        THEN {j \in (i + 1)..Len(s) : s[j] = ")" /\ MatchHardval(s, j + 1).ok}
        ELSE {})

\* \s? and what follows, read at index i
MatchSpace2(s, i) ==
    FirstOk(IF SpaceAt(s, i) THEN MatchHardscale(s, i + 1) ELSE NoMatch,
            MatchHardscale(s, i))

\* the grammar with a soft scale that has to be there: \[(?P<softscale>.*)\]
MatchSoftscaleFixed(s, i, ends) ==
    IF ends # {}
    THEN Bind(SetMax(ends), LAMBDA j :
             [MatchSpace2(s, j + 1) EXCEPT !.softscale = SubSeq(s, i + 1, j - 1)])
    ELSE NoMatch

\* (?:\[(?P<softscale>.*)\])? with its '[' at i and a ']' at one of ends
MatchSoftscaleIn(s, i, ends) ==
    IF ends # {}
    THEN Bind(SetMax(ends), LAMBDA j :
             [MatchSpace2(s, j + 1) EXCEPT !.softscale = SubSeq(s, i + 1, j - 1)])
    ELSE MatchSpace2(s, i)

\* (?:\[(?P<softscale>.*)\])? and what follows, read at index i
MatchSoftscale(s, i) ==
    MatchSoftscaleIn(s, i,
        IF CharAt(s, i, "[")
        THEN {j \in (i + 1)..Len(s) : s[j] = "]" /\ MatchSpace2(s, j + 1).ok}
        ELSE {})

\* \s? and what follows, read at index i
MatchSpace1(s, i) ==
    FirstOk(IF SpaceAt(s, i) THEN MatchSoftscale(s, i + 1) ELSE NoMatch,
            MatchSoftscale(s, i))

\* (?P<param>.*): (?P<type>\w) with its ':' at one of ends
MatchParamIn(s, i, ends) ==
    IF ends # {}
    THEN Bind(SetMax(ends), LAMBDA j :
             [MatchSpace1(s, j + 3) EXCEPT !.param = SubSeq(s, i, j - 1),
                                           !.type = <<s[j + 2]>>])
    ELSE NoMatch

\* (?P<param>.*): (?P<type>\w) and what follows, read at index i
MatchParam(s, i) ==
    MatchParamIn(s, i, {j \in i..(Len(s) - 2) : /\ s[j] = ":" /\ s[j + 1] = " "
                                                /\ IsWord(s[j + 2])
                                                /\ MatchSpace1(s, j + 3).ok})

\* the group, '\d:' or ':' or nothing, that starts at index i: where it ends and
\* its text.  A digit is tried before the empty group, a group before none.
GroupsAt(s, i) ==
    (IF i + 1 <= Len(s) /\ IsDigit(s[i]) /\ s[i + 1] = ":"
     THEN <<[next |-> i + 2, group |-> <<s[i]>>]>> ELSE <<>>)
    \o (IF CharAt(s, i, ":") THEN <<[next |-> i + 1, group |-> <<>>]>> ELSE <<>>)
    \o <<[next |-> i, group |-> None]>>

\* the first of the groups gs from the k-th on behind which the parameter matches
RECURSIVE MatchGroups(_, _, _)
MatchGroups(s, gs, k) ==
    IF k > Len(gs) THEN NoMatch
    ELSE Bind(MatchParam(s, gs[k].next), LAMBDA m :
             IF m.ok THEN [m EXCEPT !.group = gs[k].group]
             ELSE MatchGroups(s, gs, k + 1))

\* (?:(?P<group>\d?):)? and what follows, read at index i
MatchGroup(s, i) == MatchGroups(s, GroupsAt(s, i), 1)

\* the first of the indices starts from the k-th on at which the group matches
RECURSIVE MatchStarts(_, _, _)
MatchStarts(s, starts, k) ==
    IF k > Len(starts) THEN NoMatch
    ELSE FirstOk(MatchGroup(s, starts[k]), MatchStarts(s, starts, k + 1))

\* the indices where the text behind '^\\?@?' can start, in the order the matcher
\* tries them: with the backslash and the at sign, with the backslash alone, with
\* the at sign alone, with neither
PrefixEnds(s) ==
    (IF CharAt(s, 1, "\\")
     THEN (IF CharAt(s, 2, "@") THEN <<3>> ELSE <<>>) \o <<2>>
     ELSE <<>>)
    \o (IF CharAt(s, 1, "@") THEN <<2>> ELSE <<>>)
    \o <<1>>

\* RE_CIAO_PARAM.match(s), as the backtracking matcher finds it: at every optional
\* part the pattern is tried with the part first, and every '.*' with the longest
\* text first; a part is kept when the rest of the pattern matches behind it.
\*   ^\\?@?(?:(?P<group>\d?):)?(?P<param>.*): (?P<type>\w)\s?
\*   (?:\[(?P<softscale>.*)\])?\s?(?:\((?P<hardscale>.*)\))?\s(?P<hardval>.*)$
RE_CIAO_PARAM(s) == MatchStarts(s, PrefixEnds(s), 1)

\* The parameter objects: cls is the class; a field a class does not have is PyNone
CIAOParameter(cls, group, name, soft_scale, hard_scale, hard_value, internal, external) ==
    [cls |-> cls, group |-> group, name |-> name, soft_scale |-> soft_scale,
     hard_scale |-> hard_scale, hard_value |-> hard_value,
     internal_designation |-> internal, external_designation |-> external]

\* an exception leaving a function: its class and its message
Error(cls, msg) == [cls |-> cls, msg |-> msg]

ParameterClasses == {"ValueParameter", "ScaleParameter", "SelectParameter"}
IsParameter(p) == p.cls \in ParameterClasses

\* the type tags from_string dispatches on
ValueTag == <<"V">>
ScaleTag == <<"C">>
SelectTag == <<"S">>

\* the values of the texts of a match: from_string parses the soft scale whatever
\* it is, and the hard scale and the value when they are not empty
ParsedGroups(match) ==
    [g \in {"softscale", "hardscale", "hardval"} |->
        IF g = "softscale" \/ (match[g] # None /\ match[g] # <<>>)
        THEN parse_parameter_value(match[g])
        ELSE PyNone]

\* from_string behind its calls of parse_parameter_value
FromMatch(group, name, parameter_type, soft_scale, hard_scale, value) ==
    IF IsRaise(soft_scale) THEN Error(soft_scale.k, soft_scale.s)
    ELSE IF IsRaise(hard_scale) THEN Error(hard_scale.k, hard_scale.s)
    ELSE IF IsRaise(value) THEN Error(value.k, value.s)
    ELSE IF parameter_type = ValueTag
    THEN CIAOParameter("ValueParameter", group, name, soft_scale, hard_scale, value,
                       PyNone, PyNone)
    ELSE IF parameter_type = ScaleTag
    THEN CIAOParameter("ScaleParameter", group, name, soft_scale, PyNone, value,
                       PyNone, PyNone)
    ELSE IF parameter_type = SelectTag
    THEN CIAOParameter("SelectParameter", group, name, PyNone, PyNone, PyNone,
                       soft_scale, value)
    ELSE Error("ValueError", <<"Not a recognized CIAO parameter type: ">>
                             \o parameter_type \o <<". Allowed types: V, C, S">>)

\* from_string with the match of the line and the values of its texts
FromParsed(match, parsed) ==
    FromMatch(IF match.group # None /\ match.group # <<>>
              THEN PyInt(DigitVal(match.group[1])) ELSE PyNone,
              match.param, match.type,
              parsed["softscale"], parsed["hardscale"], parsed["hardval"])

from_string(line) ==
    Bind(RE_CIAO_PARAM(line), LAMBDA match :
        IF match.ok
        THEN FromParsed(match, ParsedGroups(match))
        ELSE Error("ValueError", <<"Not a recognized CIAO parameter object: ">> \o line))

MonthNumber(m) ==
    CASE m = <<"J", "a", "n">> -> 1 [] m = <<"F", "e", "b">> -> 2 [] m = <<"M", "a", "r">> -> 3
      [] m = <<"A", "p", "r">> -> 4 [] m = <<"M", "a", "y">> -> 5 [] m = <<"J", "u", "n">> -> 6
      [] m = <<"J", "u", "l">> -> 7 [] m = <<"A", "u", "g">> -> 8 [] m = <<"S", "e", "p">> -> 9
      [] m = <<"O", "c", "t">> -> 10 [] m = <<"N", "o", "v">> -> 11 [] m = <<"D", "e", "c">> -> 12

\* the fields f of a date, with the fields hms of its time at hour h12 of 12
DateOf(f, hms, h12) ==
    f[6] \o <<"-">> \o PadStr(MonthNumber(f[4]), 2) \o <<"-">> \o PadStr(DigitsVal(f[5]), 2)
    \o <<" ">> \o PadStr(IF f[2] = <<"P", "M">> THEN h12 + 12 ELSE h12, 2)
    \o <<":">> \o PadStr(DigitsVal(hms[2]), 2)
    \o <<":">> \o PadStr(DigitsVal(hms[3]), 2)

\* str() of the datetime read from the text s: 'YYYY-MM-DD HH:MM:SS'
DateStr(s) ==
    Bind(Split(s), LAMBDA f :
    Bind(SplitOn(f[1], ":"), LAMBDA hms : DateOf(f, hms, DigitsVal(hms[1]) % 12)))

\* the floats of a list, joined by sep
RECURSIVE JoinFloats(_, _)
JoinFloats(l, sep) ==
    IF l = <<>> THEN <<>>
    ELSE FloatStr(l[1][1], l[1][2])
         \o (IF Len(l) > 1 THEN sep \o JoinFloats(Tail(l), sep) ELSE <<>>)

\* f'{v}': str() of a value; a quantity prints as pint's '~C' format prints it
Str(v) ==
    CASE v.k = "none" -> <<"N", "o", "n", "e">>
      [] v.k = "str" -> v.s
      [] v.k = "int" -> IntStr(v.n)
      [] v.k = "float" -> FloatStr(v.n, v.d)
      [] v.k = "qty" -> FloatStr(v.n, v.d) \o <<" ">> \o v.s
      [] v.k = "list" -> <<"[">> \o JoinFloats(v.l, <<",", " ">>) \o <<"]">>
      [] v.k = "qlist" -> <<"[">> \o JoinFloats(v.l, <<" ">>) \o <<"]", " ">> \o v.s
      [] v.k = "date" -> DateStr(v.s)

\* group_string = f'{self.group}:' if self.group else ''
group_string(self) == IF Truthy(self.group) THEN Str(self.group) \o <<":">> ELSE <<>>

\* f'{v}' for the scale v of a parameter, between open and close, or nothing
ScaleString(v, open, close) ==
    IF Truthy(v) THEN <<" ", open>> \o Str(v) \o <<close>> ELSE <<>>

ValueParameter_ciao_string(self) ==
    <<"\\", "@">> \o group_string(self) \o self.name \o <<":", " ">> \o ValueTag
    \o ScaleString(self.soft_scale, "[", "]") \o ScaleString(self.hard_scale, "(", ")")
    \o <<" ">> \o Str(self.hard_value)

ScaleParameter_ciao_string(self) ==
    <<"\\", "@">> \o group_string(self) \o <<" ">> \o self.name \o <<":", " ">> \o ScaleTag
    \o <<" ", "[">> \o Str(self.soft_scale) \o <<"]", " ">> \o Str(self.hard_value)

SelectParameter_ciao_string(self) ==
    <<"\\", "@">> \o group_string(self) \o self.name \o <<":", " ">> \o SelectTag
    \o <<" ", "[">> \o Str(self.internal_designation) \o <<"]", " ", "\"">>
    \o Str(self.external_designation) \o <<"\"">>

\* the property ciao_string of a parameter object
CiaoString(self) ==
    CASE self.cls = "ValueParameter" -> ValueParameter_ciao_string(self)
      [] self.cls = "ScaleParameter" -> ScaleParameter_ciao_string(self)
      [] self.cls = "SelectParameter" -> SelectParameter_ciao_string(self)

----------------------------------------------------------------------------
(* Bytes.  A bytes object is a sequence of numbers 0..255; decoding it as     *)
(* latin-1 gives one character per byte.                                      *)

\* the printable ASCII characters, from code 32 to code 126 (the grave accent,
\* which a TLA+ string cannot hold, is written "#96")
ASCII == <<
    " ", "!", "\"", "#", "$", "%", "&", "'", "(", ")", "*", "+",
    ",", "-", ".", "/", "0", "1", "2", "3", "4", "5", "6", "7",
    "8", "9", ":", ";", "<", "=", ">", "?", "@", "A", "B", "C",
    "D", "E", "F", "G", "H", "I", "J", "K", "L", "M", "N", "O",
    "P", "Q", "R", "S", "T", "U", "V", "W", "X", "Y", "Z", "[",
    "\\", "]", "^", "_", "#96", "a", "b", "c", "d", "e", "f", "g",
    "h", "i", "j", "k", "l", "m", "n", "o", "p", "q", "r", "s",
    "t", "u", "v", "w", "x", "y", "z", "{", "|", "}", "~">>

\* bytes([b]).decode('latin-1'): the character of code b; a code outside printable
\* ASCII is written "#" and the code
Chr(b) == IF b \in 32..126 THEN ASCII[b - 31] ELSE "#" \o ToString(b)

\* the code of a printable ASCII character
Ord(c) == CHOOSE b \in 32..126 : ASCII[b - 31] = c

\* line_bytes.decode(encoding), for the single-byte encoding latin-1
Decode(bs) == [i \in 1..Len(bs) |-> Chr(bs[i])]

\* text.encode('latin-1'), for printable text
Encode(s) == [i \in 1..Len(s) |-> Ord(s[i])]

LF == 10
CR == 13

\* the elements of a set of integers, in increasing order
RECURSIVE Sorted(_)
Sorted(S) ==
    IF S = {} THEN <<>>
    ELSE LET m == CHOOSE x \in S : \A y \in S : x <= y
         IN  <<m>> \o Sorted(S \ {m})

\* bytes.splitlines(): the lines between the terminators \n, \r\n and \r, without
\* the terminators; a terminator at the very end opens no further line
SplitLines(bs) ==
    LET n == Len(bs)
        Term == {i \in 1..n : bs[i] = LF \/ (bs[i] = CR /\ ~(i < n /\ bs[i + 1] = LF))}
        starts == Sorted((IF n > 0 THEN {1} ELSE {}) \cup {i + 1 : i \in {j \in Term : j < n}})
        LineAt(a) ==
            LET later == {i \in Term : i >= a}
                e == IF later = {} THEN n + 1 ELSE CHOOSE i \in later : \A j \in later : i <= j
                last == IF e <= n /\ bs[e] = LF /\ e - 1 >= a /\ bs[e - 1] = CR
                        THEN e - 2 ELSE e - 1
            IN  SubSeq(bs, a, last)
    IN  [k \in 1..Len(starts) |-> LineAt(starts[k])]

\* str.startswith for a one-character prefix
StartsWith(s, c) == s # <<>> /\ s[1] = c

----------------------------------------------------------------------------
(* spmloader.py: the names the loader looks up *)

\* 'Ciao image list'
CiaoImageList == <<"C", "i", "a", "o", " ", "i", "m", "a", "g", "e", " ", "l", "i", "s", "t">>
\* 'File list'
FileList == <<"F", "i", "l", "e", " ", "l", "i", "s", "t">>
\* 'Ciao scan list'
CiaoScanList == <<"C", "i", "a", "o", " ", "s", "c", "a", "n", " ", "l", "i", "s", "t">>
\* '\*File list end'
FileListEnd == <<"\\", "*", "F", "i", "l", "e", " ", "l", "i", "s", "t", " ", "e", "n", "d">>
\* 'Version'
VersionKey == <<"V", "e", "r", "s", "i", "o", "n">>
\* 'Scan Size'
ScanSizeKey == <<"S", "c", "a", "n", " ", "S", "i", "z", "e">>
\* 'Aspect Ratio'
AspectRatioKey == <<"A", "s", "p", "e", "c", "t", " ", "R", "a", "t", "i", "o">>
\* 'Data offset'
DataOffsetKey == <<"D", "a", "t", "a", " ", "o", "f", "f", "s", "e", "t">>
\* 'Data length'
DataLengthKey == <<"D", "a", "t", "a", " ", "l", "e", "n", "g", "t", "h">>
\* 'Number of lines'
NumberOfLinesKey == <<"N", "u", "m", "b", "e", "r", " ", "o", "f", " ", "l", "i", "n", "e", "s">>
\* 'Samps/line'
SampsLineKey == <<"S", "a", "m", "p", "s", "/", "l", "i", "n", "e">>
\* '2:Image Data'
ImageDataKey == <<"2", ":", "I", "m", "a", "g", "e", " ", "D", "a", "t", "a">>
\* '2:Z scale'
ZScaleKey == <<"2", ":", "Z", " ", "s", "c", "a", "l", "e">>

\* SUPPORTED_VERSIONS
SUPPORTED_VERSIONS ==
    {<<"0", "x", "0", "9", "2", "0", "0", "2", "0", "1">>,
     <<"0", "x", "0", "9", "4", "0", "0", "2", "0", "2">>,
     <<"0", "x", "0", "9", "4", "0", "0", "1", "0", "3">>}

----------------------------------------------------------------------------
(* Dictionaries are functions; the header dictionary also keeps the order in  *)
(* which its keys were first set, which Python dictionaries keep              *)

EmptyDict == <<>>
Put(d, k, v) == [x \in DOMAIN d \cup {k} |-> IF x = k THEN v ELSE d[x]]

\* header = {'Ciao image list': []}: order is the order of the keys, sec the
\* sections under the other keys, images the list under 'Ciao image list'
EmptyHeader == [order |-> <<CiaoImageList>>, sec |-> EmptyDict, images |-> <<>>]

\* header[name] = section, for a name other than 'Ciao image list'
SetSection(h, name, section) ==
    [h EXCEPT !.order = IF name \in DOMAIN h.sec THEN @ ELSE Append(@, name),
              !.sec = Put(@, name, section)]

\* whether a header entry is a CIAO parameter object (and not a plain value)
IsCiaoParameter(v) == "cls" \in DOMAIN v

\* the key parse_header files a parameter under
\*   key = ciaoparam.name if not ciaoparam.group else f'{ciaoparam.group}:{ciaoparam.name}'
ParameterKey(ciaoparam) ==
    IF ~Truthy(ciaoparam.group) THEN ciaoparam.name
    ELSE Str(ciaoparam.group) \o <<":">> \o ciaoparam.name

\* no exception raised
NoError == Error("none", <<>>)

\* the loop goes on with the variables s, or is left by the exception e
Go(s) == [st |-> s, break |-> FALSE, exc |-> NoError]

Leave(st, e) == [st |-> st, break |-> FALSE, exc |-> e]

\* the storing with a single record kept for the image sections
StoreSectionOver(st) ==
    IF st.current_section = CiaoImageList
    THEN [st EXCEPT !.header.images = <<st.current_header>>, !.n_image = @ + 1]
    ELSE IF st.current_section # None
    THEN [st EXCEPT !.header = SetSection(@, st.current_section, st.current_header)]
    ELSE st

\* a line that starts a section: the section before it is stored in the header
StoreSection(st) ==
    IF st.current_section = CiaoImageList
    THEN [st EXCEPT !.header.images = Append(@, st.current_header), !.n_image = @ + 1]
    ELSE IF st.current_section # None
    THEN [st EXCEPT !.header = SetSection(@, st.current_section, st.current_header)]
    ELSE st

\* the section line with no end of the header: the loop goes on behind every marker
SectionLineOn(stored, line_bytes, line) ==
    Go([stored EXCEPT !.current_section = StripChars(line, {"*"}),
                      !.current_header = EmptyDict])

\* a line that starts a section, with the variables stored once the section before
\* it is in the header
SectionLine(stored, line_bytes, line) ==
    IF line_bytes = Encode(FileListEnd)
    THEN [st |-> stored, break |-> TRUE, exc |-> NoError]
    ELSE Go([stored EXCEPT !.current_section = StripChars(line, {"*"}),
                           !.current_header = EmptyDict])

\* the parameter line with a line from_string rejects passed over
ParameterLineSkip(st, ciaoparam) ==
    IF ~IsParameter(ciaoparam) THEN Go(st)
    ELSE Go([st EXCEPT !.current_header = Put(@, ParameterKey(ciaoparam), ciaoparam)])

\* a line that holds a CIAO parameter, or the exception from_string raised
ParameterLine(st, ciaoparam) ==
    IF ~IsParameter(ciaoparam) THEN Leave(st, ciaoparam)
    ELSE Go([st EXCEPT !.current_header = Put(@, ParameterKey(ciaoparam), ciaoparam)])

\* key, value = line.split(':', 1); current_header[key] = value
PlainEntry(st, key, value) ==
    IF IsRaise(value) THEN Leave(st, Error(value.k, value.s))
    ELSE Go([st EXCEPT !.current_header = Put(@, key, value)])

\* the regular parameter split at the last colon of the line
PlainLineLast(st, line, colon) ==
    IF colon = 0
    THEN Leave(st, Error("ValueError", <<"not enough values to unpack">>))
    ELSE Bind(CHOOSE i \in 1..Len(line) :
                  line[i] = ":" /\ \A j \in (i + 1)..Len(line) : line[j] # ":",
              LAMBDA last : PlainEntry(st, SubSeq(line, 1, last - 1),
                                       parse_parameter_value(From(line, last + 1))))

\* a line that holds a regular parameter, its first colon at index colon (or 0)
PlainLine(st, line, colon) ==
    IF colon = 0
    THEN Leave(st, Error("ValueError", <<"not enough values to unpack">>))
    ELSE PlainEntry(st, SubSeq(line, 1, colon - 1),
                    parse_parameter_value(From(line, colon + 1)))

\* the body of the loop for the decoded line
DecodedLine(st, line_bytes, line) ==
    IF StartsWith(line, "*") THEN SectionLine(StoreSection(st), line_bytes, line)
    ELSE IF StartsWith(line, "@") THEN ParameterLine(st, from_string(line))
    ELSE PlainLine(st, line, IndexOf(line, ":", 1))

\* The body of parse_header's loop for one line, on the loop's variables
\* st = [header, current_section, current_header, n_image].  The result holds the
\* variables after the line, whether the loop is left by break, and the exception
\* the line raises, if any.
ParseLineStep(st, line_bytes) ==
    DecodedLine(st, line_bytes, LStripChars(Decode(line_bytes), {"\\"}))

\* the loop variables before the first line
ParseStart == [header |-> EmptyHeader, current_section |-> None,
               current_header |-> EmptyDict, n_image |-> 0]

----------------------------------------------------------------------------
(* spmloader.py: CIAOImage *)

\* a in b for two str: a is a substring of b
IsSubstring(a, b) ==
    \E i \in 0..(Len(b) - Len(a)) : SubSeq(b, i + 1, i + Len(a)) = a

\* {key: value for key, value in file_header.items() if key not in 'Ciao image list'}
DropImageList(file_header) ==
    Bind({k \in DOMAIN file_header.sec : ~IsSubstring(k, CiaoImageList)}, LAMBDA keep :
        [order |-> SelectSeq(file_header.order, LAMBDA k : k \in keep),
         sec |-> [k \in keep |-> file_header.sec[k]]])

\* d.update(e)
Update(d, e) == [k \in DOMAIN d \cup DOMAIN e |-> IF k \in DOMAIN e THEN e[k] ELSE d[k]]

\* {k: v for key in file_header.keys() for k, v in file_header[key].items()}:
\* the sections laid over each other in the order of the keys, a later one winning
RECURSIVE Flatten(_, _)
Flatten(sec, order) ==
    IF order = <<>> THEN EmptyDict
    ELSE Update(Flatten(sec, SubSeq(order, 1, Len(order) - 1)), sec[order[Len(order)]])

\* CIAOImage._flat_header
CIAOImage_flat_header(file_header, image_header) ==
    Update(Flatten(file_header.sec, file_header.order), image_header)

\* a signed little-endian integer of any width from its bytes
RECURSIVE SignedLE(_)
SignedLE(bs) ==
    IF Len(bs) = 1 THEN (IF bs[1] >= 128 THEN bs[1] - 256 ELSE bs[1])
    ELSE bs[1] + 256 * SignedLE(Tail(bs))

\* an index of bytes slicing cut to a buffer of n bytes: a negative one counts from
\* the end
Clamp(i, n) == IF i < 0 THEN (IF i + n < 0 THEN 0 ELSE i + n) ELSE (IF i > n THEN n ELSE i)

\* bytes slicing file_bytes[start:stop] with Python's rules: a negative index counts
\* from the end, and both are cut to the buffer
PySlice(bs, start, stop) == SubSeq(bs, Clamp(start, Len(bs)) + 1, Clamp(stop, Len(bs)))

\* the struct format letters of the pixel widths: {2: 'h', 4: 'i', 8: 'q'}
PixelWidths == {2, 4, 8}

\* CIAOImage._bytes_per_pixel, for integers: data_length // (n_rows * n_cols)
bytes_per_pixel(data_length, n_rows, n_cols) == data_length \div (n_rows * n_cols)

\* struct.unpack(f'<{n_pixels}{bpp}', bytestring) for a pixel width w: the integers,
\* when the bytes are exactly n_pixels * w
Unpack(n_pixels, w, bytestring) ==
    [k \in 1..n_pixels |-> SignedLE(SubSeq(bytestring, (k - 1) * w + 1, k * w))]

\* the array reshaped with the stored rows kept in their order
FlipReshapeKept(pixel_values, n_rows, n_cols) ==
    [r \in 1..n_rows |-> [c \in 1..n_cols |-> pixel_values[(r - 1) * n_cols + c]]]

\* np.flipud(np.array(pixel_values).reshape(n_rows, n_cols)): row r of the result
\* is stored row n_rows + 1 - r
FlipReshape(pixel_values, n_rows, n_cols) ==
    [r \in 1..n_rows |-> [c \in 1..n_cols |-> pixel_values[(n_rows - r) * n_cols + c]]]

NoImage == <<>>

\* whether a header entry is an int
IsInt(v) == ~IsCiaoParameter(v) /\ v.k = "int"

\* raw_image_from_bytes for pixels of width w in bytestring
RawImage(n_rows, n_cols, w, bytestring) ==
    IF n_rows * n_cols = 0 THEN [exc |-> Error("ZeroDivisionError", <<>>), raw |-> NoImage]
    ELSE IF w \notin PixelWidths THEN [exc |-> Error("KeyError", IntStr(w)), raw |-> NoImage]
    ELSE IF n_rows * n_cols < 0 \/ Len(bytestring) # n_rows * n_cols * w
    THEN [exc |-> Error("struct.error", <<>>), raw |-> NoImage]
    ELSE IF n_rows < 0 \/ n_cols < 0 THEN [exc |-> Error("ValueError", <<>>), raw |-> NoImage]
    ELSE [exc |-> NoError,
          raw |-> FlipReshape(Unpack(n_rows * n_cols, w, bytestring), n_rows, n_cols)]

\* raw_image_from_bytes for the entries of the image header
RawImageAt(file_bytes, data_start, data_length, n_rows, n_cols) ==
    IF ~(IsInt(data_start) /\ IsInt(data_length) /\ IsInt(n_rows) /\ IsInt(n_cols))
    THEN [exc |-> Error("TypeError", <<>>), raw |-> NoImage]
    ELSE RawImage(n_rows.n, n_cols.n,
                  IF n_rows.n * n_cols.n = 0 THEN 0
                  ELSE bytes_per_pixel(data_length.n, n_rows.n, n_cols.n),
                  PySlice(file_bytes, data_start.n, data_start.n + data_length.n))

\* the first of the keys that image_header lacks, or None
RECURSIVE MissingKey(_, _)
MissingKey(d, keys) ==
    IF keys = <<>> THEN None
    ELSE IF keys[1] \notin DOMAIN d THEN keys[1]
    ELSE MissingKey(d, Tail(keys))

\* the header entry that declares a pixel width, which the decoder does not read
BytesPixelKey == <<"B", "y", "t", "e", "s", "/", "p", "i", "x", "e", "l">>

\* the decoding with the declared width in the place of the measured one
raw_image_declared(image_header, file_bytes) ==
    RawImage(image_header[NumberOfLinesKey].n, image_header[SampsLineKey].n,
             image_header[BytesPixelKey].n,
             PySlice(file_bytes, image_header[DataOffsetKey].n,
                     image_header[DataOffsetKey].n + image_header[DataLengthKey].n))

\* CIAOImage.raw_image_from_bytes: the array, or the exception.  Header entries that
\* are not int make the arithmetic, the slice or the format fail; the model raises
\* TypeError for all of them.
raw_image_from_bytes(image_header, file_bytes) ==
    Bind(MissingKey(image_header,
                    <<DataOffsetKey, DataLengthKey, NumberOfLinesKey, SampsLineKey>>),
         LAMBDA missing :
        IF missing # None THEN [exc |-> Error("KeyError", missing), raw |-> NoImage]
        ELSE RawImageAt(file_bytes, image_header[DataOffsetKey],
                        image_header[DataLengthKey], image_header[NumberOfLinesKey],
                        image_header[SampsLineKey]))

\* Exact fractions num / den, den > 0, in lowest terms, for the results of the
\* loader's float divisions
RECURSIVE GCD(_, _)
GCD(a, b) == IF b = 0 THEN a ELSE GCD(b, a % b)

\* the sign of den, and the greatest common divisor g of num and den
RatOf(num, den, g) ==
    [num |-> (IF den < 0 THEN -1 ELSE 1) * (num \div g),
     den |-> (IF den < 0 THEN -1 ELSE 1) * (den \div g)]

Rat(num, den) == RatOf(num, den, GCD(Abs(num), Abs(den)))

\* self.value of a parameter object
ParameterValue(p) ==
    IF p.cls = "SelectParameter" THEN p.external_designation ELSE p.hard_value

\* what an operator or a delegated attribute of a header entry works on: the value
\* of a parameter object (CIAOParameter.__getattr__, __truediv__), or the entry
AsValue(v) == IF IsCiaoParameter(v) THEN ParameterValue(v) ELSE v

IsNumeric(v) == v.k \in {"int", "float", "qty"}

\* the axis without its end point: np.linspace(0, stop, n, endpoint=False)
LinspaceOpen(stop, n) ==
    [i \in 1..n |-> Rat(stop.num * (i - 1), stop.den * n)]

\* np.linspace(0, stop, n) for n >= 1
Linspace(stop, n) ==
    [i \in 1..n |-> IF n = 1 THEN Rat(0, 1) ELSE Rat(stop.num * (i - 1), stop.den * (n - 1))]

\* scan_size / ratio for a number ratio = <<n, d>>
Over(scan_size, ratio) ==
    Rat(scan_size.n * Pow10(ratio[2]), ratio[1] * Pow10(scan_size.d))

\* the object __init__ leaves behind
ImageObject(image_header, file_header, raw_image, scan_size, height, width) ==
    [exc |-> NoError,
     image_header |-> image_header,
     file_header |-> file_header,
     raw_image |-> raw_image,
     title |-> image_header[ImageDataKey].external_designation,
     scan_size |-> scan_size,
     height |-> height,
     width |-> width,
     px_size_y |-> Rat(height.num, height.den * Len(raw_image)),
     px_size_x |-> Rat(width.num, width.den * Len(raw_image[1])),
     y |-> Linspace(height, Len(raw_image)),
     x |-> Linspace(width, Len(raw_image[1]))]

\* the height taken from the second number of the aspect ratio
CIAOImage_height_second(scan_size, aspect_ratio) == Over(scan_size, aspect_ratio[2])

\* self.height = self.scan_size / aspect_ratio[0]
CIAOImage_height(scan_size, aspect_ratio) == Over(scan_size, aspect_ratio[1])

\* self.width = self.scan_size / aspect_ratio[1]
CIAOImage_width(scan_size, aspect_ratio) == Over(scan_size, aspect_ratio[2])

\* __init__ from 'Height and width' on
ImageSized(image_header, file_header, raw_image, scan_size, aspect_ratio) ==
    IF ~IsNumeric(scan_size) THEN [exc |-> Error("TypeError", <<>>)]
    ELSE IF aspect_ratio[1][1] = 0 THEN [exc |-> Error("ZeroDivisionError", <<>>)]
    ELSE IF Len(aspect_ratio) < 2
    THEN [exc |-> Error("IndexError", <<"list index out of range">>)]
    ELSE IF aspect_ratio[2][1] = 0 THEN [exc |-> Error("ZeroDivisionError", <<>>)]
    ELSE ImageObject(image_header, file_header, raw_image, scan_size,
                     CIAOImage_height(scan_size, aspect_ratio),
                     CIAOImage_width(scan_size, aspect_ratio))

\* aspect_ratio = [float(x) for x in pieces]
ImageAspect(image_header, file_header, raw_image, pieces) ==
    IF \E i \in 1..Len(pieces) : ~IsNumber(Strip(pieces[i]))
    THEN [exc |-> Error("ValueError", <<"could not convert string to float">>)]
    ELSE ImageSized(image_header, file_header, raw_image,
                    AsValue(file_header.sec[CiaoScanList][ScanSizeKey]),
                    [i \in 1..Len(pieces) |-> ToFloat(Strip(pieces[i]))])

\* self['Aspect Ratio'].strip().split(':') on the flat header
ImageFlat(image_header, file_header, raw_image, flat) ==
    IF AspectRatioKey \notin DOMAIN flat THEN [exc |-> Error("KeyError", AspectRatioKey)]
    ELSE IF AsValue(flat[AspectRatioKey]).k # "str"
    THEN [exc |-> Error("AttributeError", <<"strip">>)]
    ELSE ImageAspect(image_header, file_header, raw_image,
                     SplitOn(Strip(AsValue(flat[AspectRatioKey]).s), ":"))

\* __init__ behind raw_image_from_bytes: title and scan_size
ImageDecoded(image_header, file_header, decoded) ==
    IF decoded.exc # NoError THEN [exc |-> decoded.exc]
    ELSE IF ImageDataKey \notin DOMAIN image_header
    THEN [exc |-> Error("KeyError", ImageDataKey)]
    ELSE IF ~(IsCiaoParameter(image_header[ImageDataKey])
              /\ image_header[ImageDataKey].cls = "SelectParameter")
    THEN [exc |-> Error("AttributeError", <<"external_designation">>)]
    ELSE IF CiaoScanList \notin DOMAIN file_header.sec
    THEN [exc |-> Error("KeyError", CiaoScanList)]
    ELSE IF ScanSizeKey \notin DOMAIN file_header.sec[CiaoScanList]
    THEN [exc |-> Error("KeyError", ScanSizeKey)]
    ELSE ImageFlat(image_header, file_header, decoded.raw,
                   CIAOImage_flat_header(file_header, image_header))

\* __init__ behind the look-up of the image header
ImageOf(file_bytes, image_header, file_header) ==
    ImageDecoded(image_header, file_header, raw_image_from_bytes(image_header, file_bytes))

\* file_header['Ciao image list'][image_number] for an index in range: a negative
\* index counts from the end of the list
ListItem(list, index) == list[IF index < 0 THEN Len(list) + index + 1 ELSE index + 1]

\* the message with the count in the place of the last valid index
IndexErrorMessageCount(count) ==
    <<"CIAO image not in header, specify image number between 0 and ">>
    \o IntStr(count)

\* 'CIAO image not in header, specify image number '
\* f'between 0 and {len(file_header["Ciao image list"]) - 1}'
IndexErrorMessage(count) ==
    <<"CIAO image not in header, specify image number between 0 and ">>
    \o IntStr(count - 1)

\* CIAOImage.__init__(file_bytes, file_header, image_number): the object, or the
\* exception in exc
CIAOImage(file_bytes, file_header, image_number) ==
    IF image_number >= Len(file_header.images) \/ image_number < -Len(file_header.images)
    THEN [exc |-> Error("IndexError", IndexErrorMessage(Len(file_header.images)))]
    ELSE ImageOf(file_bytes, ListItem(file_header.images, image_number),
                 DropImageList(file_header))

\* One pixel of CIAOImage.image: the number num / (10^d10 * 2^e2)
Pixel(num, d10, e2) == [num |-> num, d10 |-> d10, e2 |-> e2]

\* the calibration with the divisor 2^16 whatever the width
ScaledFixed(raw_image, hv, sv, w) ==
    [r \in 1..Len(raw_image) |->
        [c \in 1..Len(raw_image[r]) |->
            Pixel(raw_image[r][c] * hv.n * sv.n, hv.d + sv.d, 16)]]

\* raw_image * hard_value * sens / 2 ** (8 * w), pixel by pixel
Scaled(raw_image, hv, sv, w) ==
    [r \in 1..Len(raw_image) |->
        [c \in 1..Len(raw_image[r]) |->
            Pixel(raw_image[r][c] * hv.n * sv.n, hv.d + sv.d, 8 * w)]]

\* whether a header entry has the attributes soft_scale and hard_value
HasScales(p) == IsCiaoParameter(p) /\ p.cls \in {"ValueParameter", "ScaleParameter"}

\* the branch of image with a soft scale: sens_z_scan = self[z_scale.soft_scale]
ImageSoft(self, flat, z_scale, w) ==
    IF z_scale.soft_scale.k # "str" \/ z_scale.soft_scale.s \notin DOMAIN flat
    THEN [exc |-> Error("KeyError", Str(z_scale.soft_scale)), image |-> NoImage]
    ELSE IF ~HasScales(flat[z_scale.soft_scale.s])
    THEN [exc |-> Error("AttributeError", <<"hard_value">>), image |-> NoImage]
    ELSE IF ~IsNumeric(z_scale.hard_value)
            \/ ~IsNumeric(flat[z_scale.soft_scale.s].hard_value)
    THEN [exc |-> Error("TypeError", <<>>), image |-> NoImage]
    ELSE [exc |-> NoError,
          image |-> Scaled(self.raw_image, z_scale.hard_value,
                           flat[z_scale.soft_scale.s].hard_value, w)]

\* image on the flat header
ImageScaled(self, flat, w) ==
    IF ZScaleKey \notin DOMAIN flat
    THEN [exc |-> Error("KeyError", ZScaleKey), image |-> NoImage]
    ELSE IF ~HasScales(flat[ZScaleKey])
    THEN [exc |-> Error("AttributeError", <<"soft_scale">>), image |-> NoImage]
    ELSE IF Truthy(flat[ZScaleKey].soft_scale)
    THEN ImageSoft(self, flat, flat[ZScaleKey], w)
    ELSE IF ~IsNumeric(flat[ZScaleKey].hard_value)
    THEN [exc |-> Error("TypeError", <<>>), image |-> NoImage]
    ELSE [exc |-> NoError,
          image |-> Scaled(self.raw_image, flat[ZScaleKey].hard_value, PyInt(1), w)]

\* CIAOImage.image: the calibrated array, or the exception in exc.  Magnitudes only:
\* the units pint carries along are left out.
CIAOImage_image(self) ==
    ImageScaled(self, CIAOImage_flat_header(self.file_header, self.image_header),
                bytes_per_pixel(self.image_header[DataLengthKey].n,
                                self.image_header[NumberOfLinesKey].n,
                                self.image_header[SampsLineKey].n))

\* whether the array of image carries a unit: the hard value of the Z scale, or
\* that of the soft scale it names, is a quantity.  (pint multiplies the units; in
\* the headers of the model they do not cancel.)
ImageHasUnits(flat) ==
    \/ flat[ZScaleKey].hard_value.k = "qty"
    \/ /\ Truthy(flat[ZScaleKey].soft_scale)
       /\ flat[flat[ZScaleKey].soft_scale.s].hard_value.k = "qty"

\* array - other for a plain number other, pixel by pixel: the number px + add.
\* pint raises DimensionalityError for a number other than 0 and an array with a
\* unit.
ArrayMinus(array, other, units) ==
    IF array.exc # NoError THEN array
    ELSE IF units /\ other # 0
    THEN [exc |-> Error("DimensionalityError", <<>>), image |-> NoImage]
    ELSE [exc |-> NoError,
          image |-> [r \in 1..Len(array.image) |->
                        [c \in 1..Len(array.image[r]) |->
                            [px |-> array.image[r][c], add |-> -other]]]]

\* array / other for a plain number other that is not 0, pixel by pixel: the
\* number up / down
ArrayOver(array, other) ==
    IF array.exc # NoError THEN array
    ELSE [exc |-> NoError,
          image |-> [r \in 1..Len(array.image) |->
                        [c \in 1..Len(array.image[r]) |->
                            [up |-> array.image[r][c], down |-> other]]]]

\* CIAOImage.__sub__(other) for a plain number: self.image - other
CIAOImage_sub(self, other) ==
    ArrayMinus(CIAOImage_image(self), other,
               ImageHasUnits(CIAOImage_flat_header(self.file_header, self.image_header)))

\* CIAOImage.__rsub__(other): return self.__sub__(other)
CIAOImage_rsub(self, other) == CIAOImage_sub(self, other)

\* CIAOImage.__truediv__(other) for a plain number: self.image / other
CIAOImage_truediv(self, other) == ArrayOver(CIAOImage_image(self), other)

\* CIAOImage.__rtruediv__(other): return self.__truediv__(other)
CIAOImage_rtruediv(self, other) == CIAOImage_truediv(self, other)

\* no reflected operation has been applied
NoResult == [other |-> 0, result |-> [exc |-> Error("pending", <<>>), image |-> NoImage]]

----------------------------------------------------------------------------
(* The files the loader is exercised on, written line by line as the          *)
(* instrument writes them                                                     *)

\* \*File list
LineFileList ==
    <<"\\", "*", "F", "i", "l", "e", " ", "l", "i", "s", "t">>

\* \Version: 0x09400202
LineVersion ==
    <<"\\", "V", "e", "r", "s", "i", "o", "n", ":", " ", "0", "x", "0", "9", "4", "0", "0",
      "2", "0", "2">>

\* \Date: 10:30:00 AM Tue Mar 05 2019
LineDate ==
    <<"\\", "D", "a", "t", "e", ":", " ", "1", "0", ":", "3", "0", ":", "0", "0", " ", "A",
      "M", " ", "T", "u", "e", " ", "M", "a", "r", " ", "0", "5", " ", "2", "0", "1", "9">>

\* \*Ciao scan list
LineScanList ==
    <<"\\", "*", "C", "i", "a", "o", " ", "s", "c", "a", "n", " ", "l", "i", "s", "t">>

\* \Scan Size: 100 nm
LineScanSize ==
    <<"\\", "S", "c", "a", "n", " ", "S", "i", "z", "e", ":", " ", "1", "0", "0", " ", "n",
      "m">>

\* \Aspect Ratio: 
LineAspectRatio ==
    <<"\\", "A", "s", "p", "e", "c", "t", " ", "R", "a", "t", "i", "o", ":", " ">>

\* \@Sens. Zsens: V 5.0 nm/V
LineSens ==
    <<"\\", "@", "S", "e", "n", "s", ".", " ", "Z", "s", "e", "n", "s", ":", " ", "V", " ",
      "5", ".", "0", " ", "n", "m", "/", "V">>

\* \*Ciao image list
LineImageList ==
    <<"\\", "*", "C", "i", "a", "o", " ", "i", "m", "a", "g", "e", " ", "l", "i", "s", "t">>

\* \Data offset: 
LineDataOffset ==
    <<"\\", "D", "a", "t", "a", " ", "o", "f", "f", "s", "e", "t", ":", " ">>

\* \Data length: 
LineDataLength ==
    <<"\\", "D", "a", "t", "a", " ", "l", "e", "n", "g", "t", "h", ":", " ">>

\* \Number of lines: 2
LineNumberOfLines ==
    <<"\\", "N", "u", "m", "b", "e", "r", " ", "o", "f", " ", "l", "i", "n", "e", "s", ":",
      " ", "2">>

\* \Samps/line: 2
LineSampsLine ==
    <<"\\", "S", "a", "m", "p", "s", "/", "l", "i", "n", "e", ":", " ", "2">>

\* \Bytes/pixel: 4
LineBytesPixel ==
    <<"\\", "B", "y", "t", "e", "s", "/", "p", "i", "x", "e", "l", ":", " ", "4">>

\* \@2:Image Data: S 
LineImageData ==
    <<"\\", "@", "2", ":", "I", "m", "a", "g", "e", " ", "D", "a", "t", "a", ":", " ", "S",
      " ">>

\* \@2:Z scale: V [Sens. Zsens] (0.5 V/LSB) 1.2 V
LineZScale ==
    <<"\\", "@", "2", ":", "Z", " ", "s", "c", "a", "l", "e", ":", " ", "V", " ", "[", "S",
      "e", "n", "s", ".", " ", "Z", "s", "e", "n", "s", "]", " ", "(", "0", ".", "5", " ",
      "V", "/", "L", "S", "B", ")", " ", "1", ".", "2", " ", "V">>

\* \@2:Z scale: V (0.5 V/LSB) 1.2 V
LineZScaleHard ==
    <<"\\", "@", "2", ":", "Z", " ", "s", "c", "a", "l", "e", ":", " ", "V", " ", "(", "0",
      ".", "5", " ", "V", "/", "L", "S", "B", ")", " ", "1", ".", "2", " ", "V">>

\* \@Gain: V 1
LineGain ==
    <<"\\", "@", "G", "a", "i", "n", ":", " ", "V", " ", "1">>

\* \@0:Gain: V 2
LineGain0 ==
    <<"\\", "@", "0", ":", "G", "a", "i", "n", ":", " ", "V", " ", "2">>

\* \@1:Gain: V 3
LineGain1 ==
    <<"\\", "@", "1", ":", "G", "a", "i", "n", ":", " ", "V", " ", "3">>

\* \@Bad: X 1
LineBadTag ==
    <<"\\", "@", "B", "a", "d", ":", " ", "X", " ", "1">>

\* \@Broken
LineNoGrammar ==
    <<"\\", "@", "B", "r", "o", "k", "e", "n">>

\* \no colon here
LineNoColon ==
    <<"\\", "n", "o", " ", "c", "o", "l", "o", "n", " ", "h", "e", "r", "e">>

\* \*@Star: V 1
LineStarAt ==
    <<"\\", "*", "@", "S", "t", "a", "r", ":", " ", "V", " ", "1">>

\* \@*At: V 2
LineAtStar ==
    <<"\\", "@", "*", "A", "t", ":", " ", "V", " ", "2">>

\* \Note: *a @b: c
LineNote ==
    <<"\\", "N", "o", "t", "e", ":", " ", "*", "a", " ", "@", "b", ":", " ", "c">>

\* Height
TitleHeight ==
    <<"H", "e", "i", "g", "h", "t">>

\* Phase
TitlePhase ==
    <<"P", "h", "a", "s", "e">>

MaxImages == 2

Titles == {TitleHeight, TitlePhase}

\* the lines a file may hold between the scan parameters and the first image
ExtraLines == {<<>>, <<LineGain, LineGain0>>, <<LineGain0, LineGain1>>, <<LineBadTag>>,
               <<LineNoGrammar>>, <<LineNoColon>>, <<LineStarAt, LineAtStar, LineNote>>}

\* the section of one image: length bytes of data at byte offset, its title, and
\* a Z scale that names the soft scale 'Sens. Zsens' or none
ImageSection(offset, length, title, soft) ==
    <<LineImageList, LineDataOffset \o IntStr(offset), LineDataLength \o IntStr(length),
      LineNumberOfLines, LineSampsLine, LineBytesPixel,
      LineImageData \o <<"[">> \o title \o <<"]", " ", "\"">> \o title \o <<"\"">>,
      IF soft THEN LineZScale ELSE LineZScaleHard>>

\* the concatenation of a sequence of sequences
RECURSIVE Concat(_)
Concat(ss) == IF ss = <<>> THEN <<>> ELSE ss[1] \o Concat(Tail(ss))

\* the sections of the file and of the scan, with the aspect ratio aspect
ScanLines(aspect) ==
    <<LineFileList, LineVersion, LineDate, LineScanList, LineScanSize,
      LineAspectRatio \o aspect, LineSens>>

\* the header lines of a file with the images titled titles, each of length bytes,
\* their data at first, first + length, ...
FileLines(titles, extra, aspect, length, soft, first, withEnd) ==
    ScanLines(aspect)
    \o extra
    \o Concat([i \in 1..Len(titles) |->
                  ImageSection(first + length * (i - 1), length, titles[i], soft)])
    \o (IF withEnd THEN <<FileListEnd>> ELSE <<>>)

\* the bytes of lines, each ended by \r\n
LinesBytes(lines) == Concat([i \in 1..Len(lines) |-> Encode(lines[i]) \o <<CR, LF>>])

\* the integer v as w bytes, little-endian, in two's complement
RECURSIVE LEBytes(_, _)
LEBytes(v, w) == IF w = 0 THEN <<>> ELSE <<v % 256>> \o LEBytes(v \div 256, w - 1)

\* the pixels the files hold for image i
PixelValues(i) == <<i, -i, 300, 3>>

\* the length bytes of data of image i: its four pixels, each as many bytes wide
\* as the length gives whole bytes to it, and zeros behind them
PixelData(i, length) ==
    Concat([k \in 1..4 |-> LEBytes(PixelValues(i)[k], length \div 4)])
    \o [k \in 1..(length % 4) |-> 0]

\* the header of size bytes with the data of the images behind it, less the last
\* cut bytes
FileOfSize(titles, extra, aspect, length, soft, withEnd, withData, cut, size) ==
    Bind(LinesBytes(FileLines(titles, extra, aspect, length, soft, size, withEnd))
         \o (IF withData THEN Concat([i \in 1..Len(titles) |-> PixelData(i, length)])
             ELSE <<>>),
         LAMBDA bytes : SubSeq(bytes, 1, Len(bytes) - cut))

\* a whole file: the header, and behind it the pixel data of every image (or none,
\* for a file cut after the header); the header names the offsets of the data
FileBytes(titles, extra, aspect, length, soft, withEnd, withData, cut) ==
    FileOfSize(titles, extra, aspect, length, soft, withEnd, withData, cut,
               Len(LinesBytes(FileLines(titles, extra, aspect, length, soft, 100, withEnd))))

TitleLists == UNION {[1..n -> Titles] : n \in 0..MaxImages}

\* the files SPMFile is constructed on: images of four 16-bit pixels
Files == {FileBytes(titles, extra, <<"1", ":", "2">>, 8, TRUE, withEnd, withData, 0) :
             titles \in TitleLists, extra \in ExtraLines,
             withEnd \in BOOLEAN, withData \in BOOLEAN}

\* Files for the resolution of a soft-scale name: one image of four 16-bit
\* pixels whose Z scale names 'Sens. Zsens', and the parameter of that name in the
\* image's own section, in the scan section, in a section before or behind the
\* scan section, or in none of them

\* \*Scanner list
LineScannerList ==
    <<"\\", "*", "S", "c", "a", "n", "n", "e", "r", " ", "l", "i", "s", "t">>

\* \*Equipment list
LineEquipmentList ==
    <<"\\", "*", "E", "q", "u", "i", "p", "m", "e", "n", "t", " ", "l", "i", "s", "t">>

\* \@Sens. Zsens: V 7.0 nm/V
LineSensOther ==
    <<"\\", "@", "S", "e", "n", "s", ".", " ", "Z", "s", "e", "n", "s", ":", " ", "V",
      " ", "7", ".", "0", " ", "n", "m", "/", "V">>

\* \@Sens. Zsens: V 3.0 nm/V
LineSensLocal ==
    <<"\\", "@", "S", "e", "n", "s", ".", " ", "Z", "s", "e", "n", "s", ":", " ", "V",
      " ", "3", ".", "0", " ", "n", "m", "/", "V">>

\* \Aspect Ratio: 1:1
LineAspectSquare ==
    <<"\\", "A", "s", "p", "e", "c", "t", " ", "R", "a", "t", "i", "o", ":", " ", "1",
      ":", "1">>

\* where a further section holds the name: nowhere, before or behind the scan section
OtherPlaces == {"none", "before", "behind"}

\* the header lines, with the data of the image at byte first
ResolutionLines(local, scan, other, first) ==
    <<LineFileList, LineVersion, LineDate>>
    \o (IF other = "before" THEN <<LineScannerList, LineSensOther>> ELSE <<>>)
    \o <<LineScanList, LineScanSize, LineAspectSquare>>
    \o (IF scan THEN <<LineSens>> ELSE <<>>)
    \o (IF other = "behind" THEN <<LineEquipmentList, LineSensOther>> ELSE <<>>)
    \o <<LineImageList, LineDataOffset \o IntStr(first), LineDataLength \o <<"8">>,
         LineNumberOfLines, LineSampsLine, LineBytesPixel,
         LineImageData \o <<"[">> \o TitleHeight \o <<"]", " ", "\"">> \o TitleHeight
            \o <<"\"">>>>
    \o (IF local THEN <<LineSensLocal>> ELSE <<>>)
    \o <<LineZScale, FileListEnd>>

\* the file: the header, whose size is the offset it names, and the pixel data
ResolutionFile(local, scan, other) ==
    Bind(Len(LinesBytes(ResolutionLines(local, scan, other, 100))), LAMBDA size :
        LinesBytes(ResolutionLines(local, scan, other, size)) \o PixelData(1, 8))

ResolutionFiles ==
    {ResolutionFile(local, scan, other) :
        local \in BOOLEAN, scan \in BOOLEAN, other \in OtherPlaces}

\* Files with a further section before the scan section, of a name of its own or
\* of a name that is a part of 'Ciao image list'
SectionNames == {Tail(Tail(LineScannerList)), <<"l", "i", "s", "t">>,
                 <<"C", "i", "a", "o", " ", "i", "m", "a", "g", "e">>}

\* the header lines, with the data of the image at byte first
NamedSectionLines(name, first) ==
    <<LineFileList, LineVersion, LineDate, <<"\\", "*">> \o name, LineSensOther,
      LineScanList, LineScanSize, LineAspectSquare,
      LineImageList, LineDataOffset \o IntStr(first), LineDataLength \o <<"8">>,
      LineNumberOfLines, LineSampsLine, LineBytesPixel,
      LineImageData \o <<"[">> \o TitleHeight \o <<"]", " ", "\"">> \o TitleHeight
         \o <<"\"">>,
      LineZScale, FileListEnd>>

\* the file: the header, whose size is the offset it names, and the pixel data
NamedSectionFile(name) ==
    Bind(Len(LinesBytes(NamedSectionLines(name, 100))), LAMBDA size :
        LinesBytes(NamedSectionLines(name, size)) \o PixelData(1, 8))

SectionFiles == {NamedSectionFile(name) : name \in SectionNames}

\* Files for the shape of an image: one image of rows x cols 16-bit pixels

\* the pixels the files hold, in the order they are stored
ShapeValues == <<1, -1, 300, 3, -300, 7>>

Shapes == {<<1, 4>>, <<4, 1>>, <<2, 3>>, <<3, 2>>}

\* the header lines, with the data of the image at byte first
ShapeLines(rows, cols, aspect, zscale, first) ==
    ScanLines(aspect)
    \o <<LineImageList, LineDataOffset \o IntStr(first),
         LineDataLength \o IntStr(2 * rows * cols),
         SubSeq(LineNumberOfLines, 1, Len(LineNumberOfLines) - 1) \o IntStr(rows),
         SubSeq(LineSampsLine, 1, Len(LineSampsLine) - 1) \o IntStr(cols),
         LineBytesPixel,
         LineImageData \o <<"[">> \o TitleHeight \o <<"]", " ", "\"">> \o TitleHeight
            \o <<"\"">>,
         zscale, FileListEnd>>

\* the file: the header, whose size is the offset it names, and the pixel data
ShapeFile(rows, cols, aspect, zscale) ==
    Bind(Len(LinesBytes(ShapeLines(rows, cols, aspect, zscale, 100))), LAMBDA size :
        LinesBytes(ShapeLines(rows, cols, aspect, zscale, size))
        \o Concat([k \in 1..(rows * cols) |-> LEBytes(ShapeValues[k], 2)]))

ShapeFiles ==
    {ShapeFile(shape[1], shape[2], aspect, LineZScale) :
        shape \in Shapes, aspect \in {<<"1", ":", "2">>, <<"2", ":", "1">>}}

\* \@2:Z scale: V (1) 2
LineZScalePlain ==
    <<"\\", "@", "2", ":", "Z", " ", "s", "c", "a", "l", "e", ":", " ", "V", " ", "(", "1",
      ")", " ", "2">>

\* a file whose Z scale is a plain number: the array of its image has no unit
PlainScaleFiles == {ShapeFile(2, 3, <<"1", ":", "2">>, LineZScalePlain)}

----------------------------------------------------------------------------
(* The parameter lines the grammar is exercised on: every way of putting one  *)
(* choice of each part behind the other                                       *)

LinePrefixes == {<<"\\", "@">>, <<"@">>}
LineGroups == {<<>>, <<"2", ":">>, <<"0", ":">>}
LineNames == {<<"Z">>, <<"Z", " ", "s">>}
LineTags == {<<":", " ", "V">>, <<":", " ", "C">>, <<":", " ", "S">>, <<":", " ", "X">>,
             <<":", "V">>}
LineSoftScales == {<<>>, <<" ", "[", "S", "]">>}
LineHardScales == {<<>>, <<" ", "(", "1", ")">>, <<" ", "(", "0", ")">>,
                   <<" ", "(", "0", ".", "5", " ", "V", "/", "L", "S", "B", ")">>}
LineValues == {<<" ", "2">>, <<" ", "1", ".", "5", " ", "V">>, <<" ", "\"", "H", "\"">>,
               <<" ", "1", "e", "+", "5">>, <<>>, <<" ">>}

ParameterLines ==
    {a \o g \o m \o t \o s \o h \o v :
        a \in LinePrefixes, g \in LineGroups, m \in LineNames, t \in LineTags,
        s \in LineSoftScales, h \in LineHardScales, v \in LineValues}

NoParameter == Error("none", <<>>)

----------------------------------------------------------------------------
(* A caller that parses a line, prints the parameter and parses the print *)

\* no file is being decoded image by image
IdleDecode ==
    /\ buffer = <<>>
    /\ parsed_header = EmptyHeader
    /\ image_objects = <<>>
    /\ image_arrays = <<>>

IdleValue ==
    /\ arg_value_str = None
    /\ vpc = "idle"
    /\ parsed_value = PyNone

IdleFile ==
    /\ spmfile = <<>>
    /\ fpc = "idle"
    /\ header_lines = <<>>
    /\ line_no = 0
    /\ parse = ParseStart
    /\ header = EmptyHeader
    /\ images = EmptyDict
    /\ image_no = 0
    /\ exc = NoError

IdleImage ==
    /\ arg_file_bytes = <<>>
    /\ arg_file_header = EmptyHeader
    /\ arg_image_number = 0
    /\ ipc = "idle"
    /\ ciao_image = [exc |-> NoError]
    /\ z_height = [exc |-> NoError, image |-> NoImage]
    /\ rsub_result = NoResult
    /\ rtruediv_result = NoResult

InitParam ==
    /\ IdleFile
    /\ IdleValue
    /\ IdleDecode
    /\ IdleImage
    /\ ciao_string \in ParameterLines
    /\ ppc = "start"
    /\ param = NoParameter
    /\ printed = None
    /\ reparsed = NoParameter

\* p = CIAOParameter.from_string(line)
FromString ==
    /\ ppc = "start"
    /\ param' = from_string(ciao_string)
    /\ ppc' = "parsed"
    /\ UNCHANGED <<ciao_string, printed, reparsed>>
    /\ UNCHANGED fvars
    /\ UNCHANGED ivars
    /\ UNCHANGED vvars
    /\ UNCHANGED dvars

\* s = p.ciao_string
Serialize ==
    /\ ppc = "parsed"
    /\ IsParameter(param)
    /\ printed' = CiaoString(param)
    /\ ppc' = "printed"
    /\ UNCHANGED <<ciao_string, param, reparsed>>
    /\ UNCHANGED fvars
    /\ UNCHANGED ivars
    /\ UNCHANGED vvars
    /\ UNCHANGED dvars

\* q = CIAOParameter.from_string(s)
Reparse ==
    /\ ppc = "printed"
    /\ reparsed' = from_string(printed)
    /\ ppc' = "reparsed"
    /\ UNCHANGED <<ciao_string, param, printed>>
    /\ UNCHANGED fvars
    /\ UNCHANGED ivars
    /\ UNCHANGED vvars
    /\ UNCHANGED dvars

NextParam == FromString \/ Serialize \/ Reparse

SpecParam == InitParam /\ [][NextParam]_vars

----------------------------------------------------------------------------
(* Claims about the parameter grammar, checked under SpecParam *)

\* C8: round trip.  For every line that parses to a parameter p, parsing
\* p.ciao_string gives a parameter q of the same variant with equal group, name,
\* soft-scale / internal designation, hard-scale and hard-value / external
\* designation.
C8_RoundTrip ==
    ppc = "reparsed" => IsParameter(reparsed) /\ reparsed = param

\* the message of the error from_string raises for an unknown type tag
TagMessage(tag) ==
    <<"Not a recognized CIAO parameter type: ">> \o tag \o <<". Allowed types: V, C, S">>

\* the message of the error from_string raises for a line outside the grammar
LineMessage(line) == <<"Not a recognized CIAO parameter object: ">> \o line

\* what C10 states of the result of from_string on a line with the match of the
\* grammar
ParseErrorsAsStated(line, match, result) ==
    /\ IsParameter(result) \/ result.cls \in Exceptions
    /\ (match.ok /\ match.type \notin {ValueTag, ScaleTag, SelectTag})
       => result = Error("ValueError", TagMessage(match.type))
    /\ ~match.ok => result = Error("ValueError", LineMessage(line))

\* C10: from_string returns one of the three variants or raises; a line that matches
\* the grammar with a type tag other than V, C, S raises the error that names the
\* tag; a line that fails the grammar raises the other error, which holds the line;
\* neither returns a parameter.
C10_ParseErrors ==
    ppc # "start" => ParseErrorsAsStated(ciao_string, RE_CIAO_PARAM(ciao_string), param)

\* the text a part of a line holds between its space and brackets, None when the
\* part is not there
PartText(part) == IF part = <<>> THEN None ELSE SubSeq(part, 3, Len(part) - 1)

\* the group a prefix states
StatedGroup(g) == IF g = <<>> THEN PyNone ELSE PyInt(DigitVal(g[1]))

\* the value of a part that is there, parsed on its own; PyNone for one that is not
StatedPart(part) == IF part = <<>> THEN PyNone ELSE parse_parameter_value(PartText(part))

\* the values from_string may be given behind the scales: those that are not
\* empty and that the value parser returns a value for
GoodValues == {v \in LineValues : /\ Len(v) > 1
                                  /\ ~IsRaise(parse_parameter_value(Tail(v)))}

\* what the parameter p tells of the group, the soft scale and the hard scale
StatedFields(p) ==
    [group |-> p.group,
     soft |-> IF p.cls = "SelectParameter" THEN p.internal_designation ELSE p.soft_scale,
     hard |-> p.hard_scale,
     value |-> IF p.cls = "SelectParameter" THEN p.external_designation ELSE p.hard_value]

\* the parameter of the line a g m ': ' t s h v as the claim states it; the hard
\* scale is a field of Value parameters only
ParsedAsStated(p, t, g, m, s, h, v) ==
    /\ IsParameter(p)
    /\ p.cls = (IF t = ValueTag THEN "ValueParameter"
                ELSE IF t = ScaleTag THEN "ScaleParameter" ELSE "SelectParameter")
    /\ p.name = m
    /\ StatedFields(p) = [group |-> StatedGroup(g), soft |-> StatedPart(s),
                          hard |-> IF t = ValueTag THEN StatedPart(h) ELSE PyNone,
                          value |-> parse_parameter_value(Tail(v))]

\* C19: from_string accepts a line with each of the eight ways of having or not
\* having a group, a soft scale and a hard scale; a part that is not there is
\* None, and a part that is there has the value it has parsed on its own.
C19_OptionalParts ==
    \A a \in LinePrefixes, g \in LineGroups, m \in LineNames,
       t \in {ValueTag, ScaleTag, SelectTag},
       s \in LineSoftScales, h \in LineHardScales, v \in GoodValues :
        (ppc # "start" /\ ciao_string = a \o g \o m \o <<":", " ">> \o t \o s \o h \o v)
        => ParsedAsStated(param, t, g, m, s, h, v)

\* the eight ways of having the three parts, each parsed from a Value line
EightWays == {<<g, s, h>> : g \in {<<>>, <<"2", ":">>}, s \in LineSoftScales,
                            h \in {<<>>, <<" ", "(", "1", ")">>}}

\* a Value line with all three parts parsed
C19_Witness ==
    /\ ppc = "parsed"
    /\ ciao_string = <<"\\", "@", "2", ":", "Z", ":", " ", "V", " ", "[", "S", "]", " ", "(",
                       "0", ".", "5", " ", "V", "/", "L", "S", "B", ")", " ", "1", ".", "5",
                       " ", "V">>
    /\ param.cls = "ValueParameter"
    /\ param.group = PyInt(2)
    /\ param.soft_scale = PyStr(<<"S">>)
    /\ param.hard_scale # PyNone
    /\ \A w \in EightWays :
          IsParameter(from_string(<<"@">> \o w[1] \o <<"Z", ":", " ", "V">> \o w[2] \o w[3]
                                  \o <<" ", "2">>))

\* C20: from_string returns no Value parameter without a hard value: a V line
\* with an empty value is rejected with a parse error.
C20_HardValue ==
    /\ (ppc # "start" /\ IsParameter(param) /\ param.cls = "ValueParameter")
       => param.hard_value # PyNone
    /\ (ppc = "reparsed" /\ IsParameter(reparsed) /\ reparsed.cls = "ValueParameter")
       => reparsed.hard_value # PyNone

\* C21: from_string returns no Scale parameter without a soft scale: a C line
\* with no bracketed soft scale is rejected with a parse error.
C21_SoftScale ==
    /\ (ppc # "start" /\ IsParameter(param) /\ param.cls = "ScaleParameter")
       => param.soft_scale # PyNone
    /\ (ppc = "reparsed" /\ IsParameter(reparsed) /\ reparsed.cls = "ScaleParameter")
       => reparsed.soft_scale # PyNone

\* the text of the line's value with the quote characters around it removed
Unquoted(text) == StripChars(Strip(text), {"\""})

\* C22: for an S line the internal designation is the text between the brackets
\* and the external designation is the trailing text without its quotes; both
\* are strings, never a number, a quantity, a list or a timestamp.
C22_Designations ==
    \A a \in LinePrefixes, g \in LineGroups, m \in LineNames,
       s \in LineSoftScales \ {<<>>}, v \in LineValues :
        (/\ ppc # "start"
         /\ Len(v) > 1
         /\ ciao_string = a \o g \o m \o <<":", " ">> \o SelectTag \o s \o v)
        => /\ IsParameter(param)
           /\ param.cls = "SelectParameter"
           /\ param.internal_designation = PyStr(PartText(s))
           /\ param.external_designation = PyStr(Unquoted(Tail(v)))

----------------------------------------------------------------------------
(* SPMFile.__init__ on a bytes object *)

IdleParam ==
    /\ ciao_string = <<>>
    /\ ppc = "idle"
    /\ param = NoParameter
    /\ printed = None
    /\ reparsed = NoParameter

InitFile ==
    /\ IdleParam
    /\ IdleValue
    /\ IdleDecode
    /\ IdleImage
    /\ spmfile \in Files
    /\ fpc = "init"
    /\ header_lines = <<>>
    /\ line_no = 0
    /\ parse = ParseStart
    /\ header = EmptyHeader
    /\ images = EmptyDict
    /\ image_no = 0
    /\ exc = NoError

\* parse_header is entered: header_lines = header_bytestring.splitlines()
EnterParseHeader ==
    /\ fpc = "init"
    /\ header_lines' = SplitLines(spmfile)
    /\ line_no' = 1
    /\ parse' = ParseStart
    /\ fpc' = "parse"
    /\ UNCHANGED <<spmfile, header, images, image_no, exc>>
    /\ UNCHANGED pvars
    /\ UNCHANGED vvars
    /\ UNCHANGED dvars
    /\ UNCHANGED ivars

\* the loop of parse_header after a line with the result r of its body
AfterLine(r) ==
    IF r.exc # NoError
    THEN /\ exc' = r.exc
         /\ fpc' = "raised"
         /\ UNCHANGED <<parse, line_no, header>>
    ELSE IF r.break
    THEN /\ parse' = r.st
         /\ header' = r.st.header
         /\ fpc' = "version"
         /\ UNCHANGED <<line_no, exc>>
    ELSE /\ parse' = r.st
         /\ line_no' = line_no + 1
         /\ UNCHANGED <<fpc, header, exc>>

\* one turn of the loop of parse_header; on break the header is returned
ParseLine ==
    /\ fpc = "parse"
    /\ line_no <= Len(header_lines)
    /\ AfterLine(ParseLineStep(parse, header_lines[line_no]))
    /\ UNCHANGED <<spmfile, header_lines, images, image_no>>
    /\ UNCHANGED pvars
    /\ UNCHANGED vvars
    /\ UNCHANGED dvars
    /\ UNCHANGED ivars

\* the loop of parse_header runs out of lines: return header
ParseReturn ==
    /\ fpc = "parse"
    /\ line_no > Len(header_lines)
    /\ header' = parse.header
    /\ fpc' = "version"
    /\ UNCHANGED <<spmfile, header_lines, line_no, parse, images, image_no, exc>>
    /\ UNCHANGED pvars
    /\ UNCHANGED vvars
    /\ UNCHANGED dvars
    /\ UNCHANGED ivars

\* file_version = self.header['File list']['Version'], and the start of
\* extract_ciao_images (the warning about an untested version changes no state)
CheckVersion ==
    /\ fpc = "version"
    /\ IF FileList \notin DOMAIN header.sec
       THEN exc' = Error("KeyError", FileList) /\ fpc' = "raised"
       ELSE IF VersionKey \notin DOMAIN header.sec[FileList]
       THEN exc' = Error("KeyError", VersionKey) /\ fpc' = "raised"
       ELSE exc' = exc /\ fpc' = "extract"
    /\ images' = EmptyDict
    /\ image_no' = 0
    /\ UNCHANGED <<spmfile, header_lines, line_no, parse, header>>
    /\ UNCHANGED pvars
    /\ UNCHANGED vvars
    /\ UNCHANGED dvars
    /\ UNCHANGED ivars

\* images[key] = image, or the exception of CIAOImage(...) or of the key
StoreImage(key, image) ==
    IF image.exc # NoError
    THEN /\ exc' = image.exc
         /\ fpc' = "raised"
         /\ UNCHANGED <<images, image_no>>
    ELSE IF key.k \in {"list", "qlist"}
    THEN /\ exc' = Error("TypeError", <<"unhashable type">>)
         /\ fpc' = "raised"
         /\ UNCHANGED <<images, image_no>>
    ELSE /\ images' = Put(images, key, image)
         /\ image_no' = image_no + 1
         /\ UNCHANGED <<fpc, exc>>

\* one turn of the loop of extract_ciao_images
ExtractImage ==
    /\ fpc = "extract"
    /\ image_no < Len(header.images)
    /\ StoreImage(header.images[image_no + 1][ImageDataKey].external_designation,
                  CIAOImage(spmfile, header, image_no))
    /\ UNCHANGED <<spmfile, header_lines, line_no, parse, header>>
    /\ UNCHANGED pvars
    /\ UNCHANGED vvars
    /\ UNCHANGED dvars
    /\ UNCHANGED ivars

\* extract_ciao_images returns: self.images = images, and the constructor is done
ExtractReturn ==
    /\ fpc = "extract"
    /\ image_no >= Len(header.images)
    /\ fpc' = "done"
    /\ UNCHANGED <<spmfile, header_lines, line_no, parse, header, images, image_no, exc>>
    /\ UNCHANGED pvars
    /\ UNCHANGED vvars
    /\ UNCHANGED dvars
    /\ UNCHANGED ivars

NextFile ==
    \/ EnterParseHeader
    \/ ParseLine
    \/ ParseReturn
    \/ CheckVersion
    \/ ExtractImage
    \/ ExtractReturn

SpecFile == InitFile /\ [][NextFile]_vars

----------------------------------------------------------------------------
(* CIAOImage(file_bytes, file_header, image_number) on the header of a file,  *)
(* and its property image                                                     *)

\* the loop of parse_header from line i of lines on
RECURSIVE ParseLines(_, _, _)
ParseLines(st, lines, i) ==
    IF i > Len(lines) THEN [header |-> st.header, exc |-> NoError]
    ELSE Bind(ParseLineStep(st, lines[i]), LAMBDA r :
             IF r.exc # NoError THEN [header |-> EmptyHeader, exc |-> r.exc]
             ELSE IF r.break THEN [header |-> r.st.header, exc |-> NoError]
             ELSE ParseLines(r.st, lines, i + 1))

\* parse_header(header_bytestring, encoding): the header, or the exception in exc
parse_header(header_bytestring) ==
    ParseLines(ParseStart, SplitLines(header_bytestring), 1)

\* the aspect ratios, the data lengths of the four pixels of an image, and the
\* numbers of bytes missing at the end of the files CIAOImage is constructed on
AspectRatios == {<<"1", ":", "2">>, <<"2", ":", "1">>, <<"1", ":", "1">>}
DataLengths == {4, 8, 9, 12, 16, 32}
Cuts == {0, 1}

\* the titles of n images
TitlesOf(n) == [i \in 1..n |-> IF i % 2 = 1 THEN TitleHeight ELSE TitlePhase]

ImageFiles == {FileBytes(TitlesOf(n), <<>>, aspect, length, soft, TRUE, TRUE, cut) :
                  n \in 0..MaxImages, aspect \in AspectRatios, length \in DataLengths,
                  soft \in BOOLEAN, cut \in Cuts}

ImageNumbers == (-(MaxImages + 1))..(MaxImages + 1)

InitImage ==
    /\ IdleParam
    /\ IdleValue
    /\ IdleDecode
    /\ IdleFile
    /\ arg_file_bytes \in ImageFiles \cup ResolutionFiles \cup ShapeFiles \cup SectionFiles
                         \cup PlainScaleFiles
    /\ arg_file_header = parse_header(arg_file_bytes).header
    /\ arg_image_number \in ImageNumbers
    /\ ipc = "new"
    /\ ciao_image = [exc |-> NoError]
    /\ z_height = [exc |-> NoError, image |-> NoImage]
    /\ rsub_result = NoResult
    /\ rtruediv_result = NoResult

\* __init__ returns the object or raises
Constructed(object) ==
    /\ ciao_image' = object
    /\ ipc' = IF object.exc # NoError THEN "raised" ELSE "built"

\* CIAOImage(file_bytes, file_header, image_number)
Construct ==
    /\ ipc = "new"
    /\ Constructed(CIAOImage(arg_file_bytes, arg_file_header, arg_image_number))
    /\ UNCHANGED <<arg_file_bytes, arg_file_header, arg_image_number, z_height>>
    /\ UNCHANGED <<rsub_result, rtruediv_result>>
    /\ UNCHANGED pvars
    /\ UNCHANGED vvars
    /\ UNCHANGED dvars
    /\ UNCHANGED fvars

\* the property image returns the array or raises
Calibrated(array) ==
    /\ z_height' = array
    /\ ipc' = IF array.exc # NoError THEN "failed" ELSE "scaled"

\* self.image
GetImage ==
    /\ ipc = "built"
    /\ Calibrated(CIAOImage_image(ciao_image))
    /\ UNCHANGED <<arg_file_bytes, arg_file_header, arg_image_number, ciao_image>>
    /\ UNCHANGED <<rsub_result, rtruediv_result>>
    /\ UNCHANGED pvars
    /\ UNCHANGED vvars
    /\ UNCHANGED dvars
    /\ UNCHANGED fvars

\* the numbers the reflected operations are applied to
Numbers == {2, -3}

\* k - img for a plain number k: int.__sub__ does not know the image, and Python
\* calls img.__rsub__(k)
ReflectedSub ==
    /\ ipc = "scaled"
    /\ rsub_result = NoResult
    /\ \E k \in Numbers :
          rsub_result' = [other |-> k, result |-> CIAOImage_rsub(ciao_image, k)]
    /\ UNCHANGED <<arg_file_bytes, arg_file_header, arg_image_number, ipc, ciao_image,
                   z_height, rtruediv_result>>
    /\ UNCHANGED pvars
    /\ UNCHANGED vvars
    /\ UNCHANGED dvars
    /\ UNCHANGED fvars

\* k / img for a plain number k: Python calls img.__rtruediv__(k)
ReflectedTrueDiv ==
    /\ ipc = "scaled"
    /\ rtruediv_result = NoResult
    /\ \E k \in Numbers :
          rtruediv_result' = [other |-> k, result |-> CIAOImage_rtruediv(ciao_image, k)]
    /\ UNCHANGED <<arg_file_bytes, arg_file_header, arg_image_number, ipc, ciao_image,
                   z_height, rsub_result>>
    /\ UNCHANGED pvars
    /\ UNCHANGED vvars
    /\ UNCHANGED dvars
    /\ UNCHANGED fvars

NextImage ==
    \/ Construct
    \/ GetImage
    \/ ReflectedSub
    \/ ReflectedTrueDiv

SpecImage == InitImage /\ [][NextImage]_vars

----------------------------------------------------------------------------
(* parse_parameter_value on the texts of header values *)

\* the numbers a value starts with
ValueNumbers == {<<"2">>, <<"-", "3">>, <<"+", "5">>, <<"0", "0", "7">>, <<"1", ".", "5">>,
                 <<"5", ".">>, <<"1", "e", "+", "5">>, <<"1", ".", "5", "e", "-", "2">>,
                 <<"1", "E", "+", "2">>}

\* what follows the number: nothing, a unit, further numbers, further numbers and a
\* unit
ValueTails == {<<>>, <<" ", "V">>, <<" ", "n", "m">>, <<" ", "F", "o", "o">>,
               <<" ", "l", "o", "g", "(", "V", ")">>, <<" ", "L", "S", "B">>,
               <<" ", "~", "m">>, <<" ", "4">>, <<" ", "4", " ", "V">>,
               <<" ", "4", " ", "F", "o", "o">>, <<" ", "4", " ", "L", "S", "B">>,
               <<" ", "4", ".", "5", " ", "8">>, <<" ", "4", " ", "~", "m">>}

\* values that are no numbers
ValueTexts == {<<>>, <<"\"", "H", "\"">>, <<" ", "H", "e", "i", "g", "h", "t", " ">>,
               <<"1", ".", "5", ".", "5">>, <<"0", "x", "0", "9">>,
               <<"1", "0", ":", "3", "0", ":", "0", "0", " ", "A", "M", " ", "T", "u", "e",
                 " ", "M", "a", "r", " ", "0", "5", " ", "2", "0", "1", "9">>}

ValueStrings ==
    {n \o r : n \in ValueNumbers, r \in ValueTails} \cup ValueTexts \cup {None}

InitValue ==
    /\ IdleParam
    /\ IdleFile
    /\ IdleImage
    /\ IdleDecode
    /\ arg_value_str \in ValueStrings
    /\ vpc = "call"
    /\ parsed_value = PyNone

Returned(result) ==
    /\ parsed_value' = result
    /\ vpc' = IF IsRaise(result) THEN "raised" ELSE "returned"

\* parse_parameter_value(value_str)
ParseValue ==
    /\ vpc = "call"
    /\ Returned(parse_parameter_value(arg_value_str))
    /\ UNCHANGED arg_value_str
    /\ UNCHANGED pvars
    /\ UNCHANGED fvars
    /\ UNCHANGED ivars
    /\ UNCHANGED dvars

NextValue == ParseValue

SpecValue == InitValue /\ [][NextValue]_vars

----------------------------------------------------------------------------
(* The images of one file decoded one by one in any order, each by            *)
(* CIAOImage(bytestring, header, image_number=i) and its property image       *)

\* files of up to MaxImages images of four pixels of 16 or 32 bits, whole or with
\* the last byte cut
DecodeFiles == {FileBytes(TitlesOf(n), <<>>, aspect, length, soft, TRUE, TRUE, cut) :
                   n \in 0..MaxImages, aspect \in AspectRatios,
                   length \in {8, 16}, soft \in BOOLEAN, cut \in Cuts}

\* an image that is not decoded yet, and an array that is not computed yet
PendingObject == [exc |-> Error("pending", <<>>)]

PendingArray == [exc |-> Error("pending", <<>>), image |-> NoImage]

InitDecode ==
    /\ IdleParam
    /\ IdleValue
    /\ IdleFile
    /\ IdleImage
    /\ buffer \in DecodeFiles
    /\ parsed_header = parse_header(buffer).header
    /\ image_objects = [i \in 0..(Len(parsed_header.images) - 1) |-> PendingObject]
    /\ image_arrays = [i \in 0..(Len(parsed_header.images) - 1) |-> PendingArray]

\* the header with its image sections deleted in place
file_header_dropped(file_header) == [file_header EXCEPT !.images = <<>>]

\* the caller's header after CIAOImage.__init__: the constructor reads it, and
\* builds self.file_header as a new dict
file_header_after(file_header) == file_header

\* the images that are not decoded yet
PendingImages == {i \in DOMAIN image_objects : image_objects[i] = PendingObject}

\* the images that are decoded and whose property image is not read yet
UnreadImages == {i \in DOMAIN image_objects : /\ image_objects[i].exc = NoError
                                              /\ image_arrays[i] = PendingArray}

\* CIAOImage(bytestring, header, image_number=i) for any image not decoded yet
DecodeImage ==
    /\ \E i \in PendingImages :
          image_objects' = [image_objects EXCEPT ![i] = CIAOImage(buffer, parsed_header, i)]
    /\ parsed_header' = file_header_after(parsed_header)
    /\ UNCHANGED <<buffer, image_arrays>>
    /\ UNCHANGED pvars
    /\ UNCHANGED fvars
    /\ UNCHANGED ivars
    /\ UNCHANGED vvars

\* the property image of any decoded image
ImageOfDecoded ==
    /\ \E i \in UnreadImages :
          image_arrays' = [image_arrays EXCEPT ![i] = CIAOImage_image(image_objects[i])]
    /\ UNCHANGED <<buffer, parsed_header, image_objects>>
    /\ UNCHANGED pvars
    /\ UNCHANGED fvars
    /\ UNCHANGED ivars
    /\ UNCHANGED vvars

NextDecode == DecodeImage \/ ImageOfDecoded

SpecDecode == InitDecode /\ [][NextDecode]_vars

----------------------------------------------------------------------------
(* Properties of parse_parameter_value *)

\* whether a match carries a unit suffix the registry does not know
HasUnknownUnit(match) ==
    match.ok /\ match.g2 # None /\ Strip(UnitName(match.g2)) \notin ureg

\* whether text is a number, or a list of numbers, with a unit suffix the registry
\* does not know
IsUnknownUnitValue(text) ==
    \/ HasUnknownUnit(RE_NUMERICAL(text))
    \/ (~RE_NUMERICAL(text).ok /\ HasUnknownUnit(RE_MULTIPLE_NUMERICAL(text)))

\* C11: parse_parameter_value never raises on a number or a list of numbers whose
\* unit suffix the registry does not know: it returns the text as a string.
C11_UnknownUnit ==
    (vpc \in {"returned", "raised"} /\ arg_value_str # None
     /\ IsUnknownUnitValue(Strip(arg_value_str)))
    => vpc = "returned" /\ parsed_value = PyStr(Strip(arg_value_str))

\* C12: for every text that matches the single-number pattern with no unit suffix,
\* parse_parameter_value returns an int when the text holds no decimal point and a
\* float when it holds one, and does not raise.
C12_PlainNumber ==
    (vpc \in {"returned", "raised"} /\ arg_value_str # None
     /\ arg_value_str # <<>> /\ IsNumber(Strip(arg_value_str)))
    => /\ vpc = "returned"
       /\ parsed_value.k = (IF Contains(arg_value_str, ".") THEN "float" ELSE "int")

\* whether the unit of a match is the literal '~m'
HasTildeUnit(match) == match.ok /\ match.g2 # None /\ Strip(match.g2) = <<"~", "m">>

\* whether text is a number, or a list of numbers, with the unit '~m'
IsTildeValue(text) ==
    \/ HasTildeUnit(RE_NUMERICAL(text))
    \/ (~RE_NUMERICAL(text).ok /\ HasTildeUnit(RE_MULTIPLE_NUMERICAL(text)))

\* C25: a number or a list of numbers with the unit '~m' is returned as a quantity
\* whose unit is the micrometre.
C25_Micrometre ==
    (vpc \in {"returned", "raised"} /\ arg_value_str # None
     /\ IsTildeValue(Strip(arg_value_str)))
    => /\ vpc = "returned"
       /\ parsed_value.k \in {"qty", "qlist"}
       /\ parsed_value.s = <<"mu", "m">>

----------------------------------------------------------------------------
(* Properties of SPMFile construction *)

\* C1: for every buffer SPMFile is constructed from without error, SPMFile.images
\* holds as many entries as header['Ciao image list'] holds per-image records,
\* whatever the titles of the images are.
C1_ImageCount ==
    fpc = "done" => Cardinality(DOMAIN images) = Len(header.images)

\* whether a line of the buffer is the end sentinel
HasEndSentinel(bytes) ==
    \E i \in 1..Len(SplitLines(bytes)) : SplitLines(bytes)[i] = Encode(FileListEnd)

\* C2: a buffer that holds no '\*File list end' line makes parse_header raise; no
\* header is ever returned for it.
C2_EndSentinel ==
    fpc \in {"version", "extract", "done"} => HasEndSentinel(spmfile)

\* the key C9 states for a parameter: the name when the line has no group number,
\* and '{group}:{name}' when it has one
StatedKey(ciaoparam) ==
    IF ciaoparam.group = PyNone THEN ciaoparam.name
    ELSE IntStr(ciaoparam.group.n) \o <<":">> \o ciaoparam.name

\* C9: parse_header stores every parameter under its name when the line has no
\* group number and under '{group}:{name}' when it has one, for every group digit.
C9_ParameterKeys ==
    fpc = "parse" =>
        \A key \in DOMAIN parse.current_header :
            IsCiaoParameter(parse.current_header[key])
            => key = StatedKey(parse.current_header[key])

\* the text of a header line as parse_header classifies it
LineText(line_bytes) == LStripChars(Decode(line_bytes), {"\\"})

\* the index of the first end marker among lines, or 0
RECURSIVE EndMarkerAt(_, _)
EndMarkerAt(lines, i) ==
    IF i > Len(lines) THEN 0
    ELSE IF lines[i] = Encode(FileListEnd) THEN i
    ELSE EndMarkerAt(lines, i + 1)

\* the index of the first section marker behind line i
RECURSIVE NextMarker(_, _)
NextMarker(lines, i) ==
    IF i + 1 > Len(lines) THEN Len(lines) + 1
    ELSE IF StartsWith(LineText(lines[i + 1]), "*") THEN i + 1
    ELSE NextMarker(lines, i + 1)

\* the indices, in file order, of the 'Ciao image list' markers before line end
ImageMarkers(lines, end) ==
    Sorted({i \in 1..(end - 1) : StripChars(LineText(lines[i]), {"*"}) = CiaoImageList
                                /\ StartsWith(LineText(lines[i]), "*")})

\* the entries of lines i..j, read one by one into the mapping d
RECURSIVE EntriesOf(_, _, _, _)
EntriesOf(d, lines, i, j) ==
    IF i > j THEN d
    ELSE EntriesOf(ParseLineStep([ParseStart EXCEPT !.current_header = d],
                                 lines[i]).st.current_header,
                   lines, i + 1, j)

\* the records C16 states for lines with the markers at the indices markers
StatedRecords(lines, markers) ==
    [k \in 1..Len(markers) |->
        EntriesOf(EmptyDict, lines, markers[k] + 1, NextMarker(lines, markers[k]) - 1)]

\* C16: the header parse_header returns for a buffer with an end marker holds one
\* record per 'Ciao image list' marker before the end marker, in file order, and
\* the i-th record holds exactly the entries of the lines between the i-th marker
\* and the next section marker.
C16_ImageRecords ==
    (fpc \in {"version", "extract", "done"} /\ EndMarkerAt(header_lines, 1) > 0)
    => header.images
       = StatedRecords(header_lines,
                       ImageMarkers(header_lines, EndMarkerAt(header_lines, 1)))

\* a header of two images, whose records differ in the data offset
C16_Witness ==
    /\ fpc = "done"
    /\ EndMarkerAt(header_lines, 1) > 0
    /\ Len(header.images) = 2
    /\ header.images[1][DataOffsetKey] # header.images[2][DataOffsetKey]

\* the bytes of the first end lines, each ended by \r\n
HeadBytes(lines, end) == Concat([i \in 1..end |-> lines[i] \o <<CR, LF>>])

\* bytes that may follow the end marker: none, pixel data, lines that would raise,
\* and lines of a further header
TailBytes ==
    {<<>>,
     <<1, 0, 255, 255, 44, 1, 3, 0>>,
     Encode(LineNoGrammar) \o <<CR, LF>>,
     <<LF>> \o Encode(LineNoColon) \o <<LF>>,
     Encode(LineImageList) \o <<CR, LF>> \o Encode(LineGain) \o <<CR, LF>>
        \o Encode(FileListEnd) \o <<CR, LF>>}

\* whether the section open at the end marker is in the header
OpenSectionStored(st, h) ==
    IF st.current_section = CiaoImageList
    THEN h.images # <<>> /\ h.images[Len(h.images)] = st.current_header
    ELSE st.current_section # None
         => /\ st.current_section \in DOMAIN h.sec
            /\ h.sec[st.current_section] = st.current_header

\* C17: parse_header stops at the end marker: the section open at that line is in
\* the header it returns, and the header is the same whatever bytes follow the line.
\* (fpc = "version" is the state parse_header has returned in.)
C17_StopsAtEnd ==
    (fpc = "version" /\ EndMarkerAt(header_lines, 1) > 0)
    => /\ OpenSectionStored(parse, header)
       /\ \A tail \in TailBytes :
             parse_header(HeadBytes(header_lines, EndMarkerAt(header_lines, 1))
                          \o tail)
             = [header |-> header, exc |-> NoError]

\* a header returned for a file with pixel data behind its end marker
C17_Witness ==
    /\ fpc = "version"
    /\ EndMarkerAt(header_lines, 1) > 0
    /\ Len(spmfile) > Len(HeadBytes(header_lines, EndMarkerAt(header_lines, 1)))
    /\ parse.current_section = CiaoImageList
    /\ header.images # <<>>

\* the index of the first colon of line, 0 when it has none
FirstColon(line) ==
    IF \E i \in 1..Len(line) : line[i] = ":"
    THEN CHOOSE i \in 1..Len(line) : line[i] = ":" /\ \A j \in 1..(i - 1) : line[j] # ":"
    ELSE 0

\* the loop is left by an exception
LineRaises == fpc' = "raised" /\ parse' = parse

\* the entry key: value is put into the open section, and nothing else changes
EntryPut(key, value) ==
    /\ fpc' = "parse"
    /\ parse' = [parse EXCEPT !.current_header = Put(@, key, value)]

\* a section line: the header ends, or a section of the line's name is opened empty
SectionStated(line) ==
    \/ fpc' = "version"
    \/ /\ fpc' = "parse"
       /\ parse'.current_section = StripChars(line, {"*"})
       /\ parse'.current_header = EmptyDict

\* a parameter line: the whole line goes to from_string
ParameterStated(ciaoparam) ==
    IF IsParameter(ciaoparam) THEN EntryPut(ParameterKey(ciaoparam), ciaoparam)
    ELSE LineRaises

\* a plain line: the key is the text before the first colon, and all that is
\* behind that colon goes to parse_parameter_value
PlainStated(line, colon, value) ==
    IF colon = 0 \/ IsRaise(value) THEN LineRaises
    ELSE EntryPut(SubSeq(line, 1, colon - 1), value)

LineStated(line) ==
    IF line # <<>> /\ Head(line) = "*" THEN SectionStated(line)
    ELSE IF line # <<>> /\ Head(line) = "@" THEN ParameterStated(from_string(line))
    ELSE PlainStated(line, FirstColon(line),
                     parse_parameter_value(SubSeq(line, FirstColon(line) + 1, Len(line))))

\* C18: a line is a section line when it starts with '*', else a parameter line
\* when it starts with '@', else a plain line split at its first ':' only: the key
\* is the text before that colon and the whole rest goes to the value parser.
C18_Classification ==
    [][(fpc = "parse" /\ line_no <= Len(header_lines))
       => LineStated(LineText(header_lines[line_no]))]_vars

\* a header with the section '@Star: V 1', the parameter '*At' and the plain entry
\* 'Note' in it, and the date with its colons in the file section
C18_Witness ==
    /\ fpc = "version"
    /\ Tail(Tail(LineStarAt)) \in DOMAIN header.sec
    /\ DOMAIN header.sec[Tail(Tail(LineStarAt))] = {<<"*", "A", "t">>, <<"N", "o", "t", "e">>}
    /\ header.sec[Tail(Tail(LineStarAt))][<<"N", "o", "t", "e">>]
       = PyStr(SubSeq(LineNote, 8, Len(LineNote)))
    /\ header.sec[FileList][<<"D", "a", "t", "e">>].k = "date"

\* a header line that fails to parse, as C30 counts them: a parameter line that
\* fails the grammar or has a type tag other than V, C, S, or a plain line with no
\* colon
FailingLine(line) ==
    IF StartsWith(line, "*") THEN FALSE
    ELSE IF StartsWith(line, "@")
    THEN \/ ~RE_CIAO_PARAM(line).ok
         \/ RE_CIAO_PARAM(line).type \notin {ValueTag, ScaleTag, SelectTag}
    ELSE FirstColon(line) = 0

\* the index of the first failing line before the end marker (before the end of
\* the lines, in a file with no end marker), or 0
FirstFailing(lines) ==
    Bind(IF EndMarkerAt(lines, 1) = 0 THEN Len(lines) + 1 ELSE EndMarkerAt(lines, 1),
         LAMBDA end :
            Bind({i \in 1..(end - 1) : FailingLine(LineText(lines[i]))}, LAMBDA failing :
                IF failing = {} THEN 0
                ELSE CHOOSE i \in failing : \A j \in failing : i <= j))

\* whether parse_header has returned
HasReturned == fpc \in {"version", "extract", "done"}

\* C30: a header line before the end marker that fails to parse makes parse_header
\* raise: the loop does not go past such a line, parse_header returns for no file
\* that has one, and where it has raised no header is there (self.header is never
\* assigned, not even with the sections parsed so far) and SPMFile holds no images.
C30_Aborts ==
    /\ (fpc = "parse" /\ line_no > 1)
       => ~FailingLine(LineText(header_lines[line_no - 1]))
    /\ HasReturned => FirstFailing(header_lines) = 0
    /\ (fpc = "raised" /\ FirstFailing(header_lines) > 0)
       => /\ line_no <= FirstFailing(header_lines)
          /\ exc.cls \in Exceptions
          /\ header = EmptyHeader
          /\ images = EmptyDict

\* parse_header has raised on a parameter line with an unknown type tag, with
\* sections parsed before it
C30_Witness ==
    /\ fpc = "raised"
    /\ FirstFailing(header_lines) = line_no
    /\ header_lines[line_no] = Encode(LineBadTag)
    /\ exc = Error("ValueError", TagMessage(<<"X">>))
    /\ parse.header.sec # EmptyDict
    /\ header = EmptyHeader

----------------------------------------------------------------------------
(* Properties of CIAOImage *)

\* the number of per-image records of the header CIAOImage is constructed on
ImageCount == Len(arg_file_header.images)

\* the message C3 states for count records
StatedMessage(count) ==
    <<"CIAO image not in header, specify image number between 0 and ">>
    \o IntStr(count - 1)

\* C3: CIAOImage with an image_number equal to or greater than the number of
\* per-image records raises an IndexError whose message names the range 0 to
\* count-1, and no image object is produced.
C3_IndexError ==
    (ipc \in {"raised", "built", "scaled", "failed"} /\ arg_image_number >= ImageCount)
    => /\ ipc = "raised"
       /\ ciao_image = [exc |-> Error("IndexError", StatedMessage(ImageCount))]

C3_Witness ==
    /\ ipc = "raised"
    /\ ImageCount >= 1
    /\ arg_image_number >= ImageCount
    /\ ciao_image.exc.cls = "IndexError"

\* C4: CIAOImage with any image_number outside 0..count-1, negative numbers
\* included, raises; an image is only produced for an index inside 0..count-1.
C4_OnlyInRange ==
    ipc \in {"built", "scaled", "failed"} => arg_image_number \in 0..(ImageCount - 1)

\* C5: an image decodes only when its Data length is exactly 2, 4 or 8 times its
\* number of pixels; every other Data length, one that is no multiple of the pixel
\* count included, makes raw_image_from_bytes fail.
C5_PixelWidth ==
    (ipc \in {"built", "scaled", "failed"} /\ arg_image_number >= 0) =>
        \E w \in {2, 4, 8} :
            ciao_image.image_header[DataLengthKey].n
            = w * ciao_image.image_header[NumberOfLinesKey].n
                * ciao_image.image_header[SampsLineKey].n

\* the byte width measured from Data length and the pixel count of a header
MeasuredWidth(image_header) ==
    image_header[DataLengthKey].n
    \div (image_header[NumberOfLinesKey].n * image_header[SampsLineKey].n)

\* whether every pixel of image is raw x hard x sens / 2^(8 w)
IsCalibrated(image, raw, hard, sens, w) ==
    /\ Len(image) = Len(raw)
    /\ \A r \in 1..Len(raw) :
          /\ Len(image[r]) = Len(raw[r])
          /\ \A c \in 1..Len(raw[r]) :
                image[r][c] = [num |-> raw[r][c] * hard.n * sens.n,
                               d10 |-> hard.d + sens.d,
                               e2 |-> 8 * w]

\* C6 for the object obj with the flat header flat, in which the soft-scale name is
\* an entry
CalibratedAsStated(obj, flat, array) ==
    (HasScales(flat[ZScaleKey]) /\ Truthy(flat[ZScaleKey].soft_scale)
     /\ flat[ZScaleKey].soft_scale.s \in DOMAIN flat)
    => /\ array.exc = NoError
       /\ IsCalibrated(array.image, obj.raw_image, flat[ZScaleKey].hard_value,
                       flat[flat[ZScaleKey].soft_scale.s].hard_value,
                       MeasuredWidth(obj.image_header))

IsQuotient(q, scan_size, ratio) ==
    q.num * ratio[1] * Pow10(scan_size.d) = scan_size.n * Pow10(ratio[2]) * q.den

\* the numbers a and b of the aspect ratio 'a:b' of the scan
AspectOf(file_header) ==
    [i \in 1..2 |->
        ToFloat(Strip(SplitOn(Strip(file_header.sec[CiaoScanList][AspectRatioKey].s),
                              ":")[i]))]

\* C7 as amended: with the aspect ratio a:b, height = scan_size / a and
\* width = scan_size / b.
C7_Extents ==
    ipc \in {"built", "scaled", "failed"} =>
        /\ IsQuotient(ciao_image.height, ciao_image.scan_size,
                      AspectOf(ciao_image.file_header)[1])
        /\ IsQuotient(ciao_image.width, ciao_image.scan_size,
                      AspectOf(ciao_image.file_header)[2])

\* C7 as stated: with the aspect ratio a:b, width = scan_size / a and
\* height = scan_size / b.
C7_AsStated ==
    ipc \in {"built", "scaled", "failed"} =>
        /\ IsQuotient(ciao_image.width, ciao_image.scan_size,
                      AspectOf(ciao_image.file_header)[1])
        /\ IsQuotient(ciao_image.height, ciao_image.scan_size,
                      AspectOf(ciao_image.file_header)[2])

\* the aspect ratio '1:2' with the scan size 100: height 100, width 50
C7_Witness ==
    /\ ipc = "built"
    /\ arg_image_number >= 0
    /\ ciao_image.file_header.sec[CiaoScanList][AspectRatioKey].s = <<"1", ":", "2">>
    /\ ciao_image.scan_size.n = 100 /\ ciao_image.scan_size.d = 0
    /\ ciao_image.height = [num |-> 100, den |-> 1]
    /\ ciao_image.width = [num |-> 50, den |-> 1]

\* the soft-scale name the image's '2:Z scale' parameter carries
SoftScaleName(obj) == obj.image_header[ZScaleKey].soft_scale.s

\* whether the image's Z scale names a soft scale
NamesSoftScale(obj) ==
    /\ ZScaleKey \in DOMAIN obj.image_header
    /\ HasScales(obj.image_header[ZScaleKey])
    /\ Truthy(obj.image_header[ZScaleKey].soft_scale)

\* whether name is an entry of the image's own record or of the scan section
InRecordOrScan(obj, name) ==
    \/ name \in DOMAIN obj.image_header
    \/ name \in DOMAIN obj.file_header.sec[CiaoScanList]

\* C13: when the soft-scale name of an image's '2:Z scale' is found neither in the
\* image's own record nor in the scan section, image fails with an error and
\* returns no calibrated array.
C13_Unresolved ==
    (ipc \in {"scaled", "failed"} /\ NamesSoftScale(ciao_image)
     /\ ~InRecordOrScan(ciao_image, SoftScaleName(ciao_image)))
    => ipc = "failed" /\ z_height.exc # NoError /\ z_height.image = NoImage

\* the raw array decoded with the header declaring declared bytes per pixel
DecodedDeclaring(obj, file_bytes, declared) ==
    raw_image_from_bytes(Put(obj.image_header, BytesPixelKey, PyInt(declared)),
                         file_bytes)

\* C14: the decoded raw array does not depend on the declared 'Bytes/pixel': a
\* header that differs in that entry only gives the same array for the same
\* buffer.
C14_DeclaredWidth ==
    ipc \in {"built", "scaled", "failed"} =>
        \A declared \in {1, 2, 4, 8} :
            DecodedDeclaring(ciao_image, arg_file_bytes, declared)
            = [exc |-> NoError, raw |-> ciao_image.raw_image]

\* an image of 16-bit pixels whose header declares 4 bytes per pixel
C14_Witness ==
    /\ ipc = "built"
    /\ arg_image_number >= 0
    /\ ciao_image.image_header[BytesPixelKey] = PyInt(4)
    /\ MeasuredWidth(ciao_image.image_header) = 2
    /\ ciao_image.raw_image = <<<<300, 3>>, <<1, -1>>>>

\* the entry C15 states for name: that of the image's own record when it holds the
\* name, and otherwise that of the scan section
StatedEntry(obj, name) ==
    IF name \in DOMAIN obj.image_header THEN obj.image_header[name]
    ELSE obj.file_header.sec[CiaoScanList][name]

\* C15: the soft scale of an image is the entry of that name in the image's own
\* record when it is there, and otherwise the entry of the scan section, whatever
\* other sections of the file hold the name: image is calibrated with its hard
\* value.
C15_Resolution ==
    (ipc \in {"scaled", "failed"} /\ NamesSoftScale(ciao_image)
     /\ InRecordOrScan(ciao_image, SoftScaleName(ciao_image)))
    => /\ ipc = "scaled"
       /\ IsCalibrated(z_height.image, ciao_image.raw_image,
                       ciao_image.image_header[ZScaleKey].hard_value,
                       StatedEntry(ciao_image, SoftScaleName(ciao_image)).hard_value,
                       MeasuredWidth(ciao_image.image_header))

\* the k-th integer stored in the byte range of the image of obj, from 1 on
StoredInteger(obj, file_bytes, k) ==
    Bind(MeasuredWidth(obj.image_header), LAMBDA w :
        SignedLE(SubSeq(file_bytes, obj.image_header[DataOffsetKey].n + (k - 1) * w + 1,
                        obj.image_header[DataOffsetKey].n + k * w)))

\* the array the claim states for rows x cols stored integers: entry [r][c], both
\* from 1 on, is the stored integer (rows - r) * cols + c
StatedArray(obj, file_bytes, rows, cols) ==
    [r \in 1..rows |-> [c \in 1..cols |->
        StoredInteger(obj, file_bytes, (rows - r) * cols + c)]]

\* C23: the raw array has Number of lines rows of Samps/line entries, the stored
\* little-endian signed integers in row-major order with the order of the rows
\* reversed.
C23_RawArray ==
    ipc \in {"built", "scaled", "failed"}
    => ciao_image.raw_image
       = StatedArray(ciao_image, arg_file_bytes,
                     ciao_image.image_header[NumberOfLinesKey].n,
                     ciao_image.image_header[SampsLineKey].n)

\* an image of two rows of three pixels decoded
C23_Witness ==
    /\ ipc = "built"
    /\ ciao_image.raw_image = <<<<3, -300, 7>>, <<1, -1, 300>>>>

\* the difference of two fractions
Minus(a, b) == Rat(a.num * b.den - b.num * a.den, a.den * b.den)

\* the quotient of a fraction and a count
Per(extent, count) == Rat(extent.num, extent.den * count)

\* whether the entries of axis are evenly spaced
EvenlySpaced(axis) ==
    \A i \in 1..(Len(axis) - 2) :
        Minus(axis[i + 1], axis[i]) = Minus(axis[i + 2], axis[i + 1])

\* an axis of count evenly spaced entries from 0 to extent
AxisAsStated(axis, extent, count) ==
    /\ Len(axis) = count
    /\ EvenlySpaced(axis)
    /\ axis[1] = Rat(0, 1)
    /\ axis[count] = extent

\* the axis as the code builds it: one of a single entry holds 0 alone
AxisAsBuilt(axis, extent, count) ==
    /\ Len(axis) = count
    /\ EvenlySpaced(axis)
    /\ axis[1] = Rat(0, 1)
    /\ count >= 2 => axis[count] = extent

\* the pixel sizes: the extents over the counts of the header
PixelSizes(obj) ==
    /\ obj.px_size_x = Per(obj.width, obj.image_header[SampsLineKey].n)
    /\ obj.px_size_y = Per(obj.height, obj.image_header[NumberOfLinesKey].n)

IsBuilt == ipc \in {"built", "scaled", "failed"}

\* C24 as stated: px_size_x = width / Samps/line, px_size_y = height / Number of
\* lines, and x and y have Samps/line and Number of lines evenly spaced entries
\* from 0 to width and to height.
C24_AsStated ==
    IsBuilt
    => /\ PixelSizes(ciao_image)
       /\ AxisAsStated(ciao_image.x, ciao_image.width,
                       ciao_image.image_header[SampsLineKey].n)
       /\ AxisAsStated(ciao_image.y, ciao_image.height,
                       ciao_image.image_header[NumberOfLinesKey].n)

\* C24 (amended): the pixel sizes are the extents over the counts, and x and y have
\* Samps/line and Number of lines evenly spaced entries that start at 0 and, when
\* there are at least two of them, end at width and at height; an axis of one
\* entry holds 0 alone.
C24_Axes ==
    IsBuilt
    => /\ PixelSizes(ciao_image)
       /\ AxisAsBuilt(ciao_image.x, ciao_image.width,
                      ciao_image.image_header[SampsLineKey].n)
       /\ AxisAsBuilt(ciao_image.y, ciao_image.height,
                      ciao_image.image_header[NumberOfLinesKey].n)

\* an image of one row of four pixels: y holds 0 alone, x ends at the width
C24_Witness ==
    /\ ipc = "built"
    /\ Len(ciao_image.y) = 1
    /\ Len(ciao_image.x) = 4
    /\ ciao_image.x[4] = ciao_image.width
    /\ ciao_image.width # Rat(0, 1)
    /\ ciao_image.x[2] # ciao_image.x[3]

\* C27: for an image of at least two rows and two columns the step between
\* consecutive entries of x is px_size_x and that of y is px_size_y.
C27_Steps ==
    (IsBuilt /\ Len(ciao_image.x) >= 2 /\ Len(ciao_image.y) >= 2)
    => /\ \A i \in 1..(Len(ciao_image.x) - 1) :
             Minus(ciao_image.x[i + 1], ciao_image.x[i]) = ciao_image.px_size_x
       /\ \A i \in 1..(Len(ciao_image.y) - 1) :
             Minus(ciao_image.y[i + 1], ciao_image.y[i]) = ciao_image.px_size_y

\* C28: the file header an image keeps holds every section of the parsed header
\* but the image sections, whatever its name, and every key of every such section
\* is a key of the image's accessor __getitem__.
C28_Sections ==
    IsBuilt
    => /\ \A name \in DOMAIN arg_file_header.sec :
             /\ name \in DOMAIN ciao_image.file_header.sec
             /\ ciao_image.file_header.sec[name] = arg_file_header.sec[name]
       /\ \A name \in DOMAIN arg_file_header.sec :
             DOMAIN arg_file_header.sec[name]
             \subseteq DOMAIN CIAOImage_flat_header(ciao_image.file_header,
                                                    ciao_image.image_header)

\* whether 10^d10 * 2^e2 is greater than the natural number m
RECURSIVE Exceeds(_, _, _)
Exceeds(d10, e2, m) ==
    IF m = 0 THEN TRUE
    ELSE IF d10 > 0 THEN Exceeds(d10 - 1, e2, m \div 10)
    ELSE IF e2 > 0 THEN Exceeds(d10, e2 - 1, m \div 2)
    ELSE FALSE

RECURSIVE Pow2(_)
Pow2(k) == IF k = 0 THEN 1 ELSE 2 * Pow2(k - 1)

\* whether the pixel px is the integer k
PixelIs(px, k) ==
    IF k = 0 THEN px.num = 0
    ELSE IF Exceeds(px.d10, px.e2, Abs(px.num)) THEN FALSE
    ELSE px.num = k * Pow10(px.d10) * Pow2(px.e2)

\* the negation of the number px + add
Negated(m) == [px |-> Pixel(-m.px.num, m.px.d10, m.px.e2), add |-> -m.add]

\* whether two numbers px + add of one array are the same number
SameSum(a, b) == PixelIs(Pixel(a.px.num - b.px.num, a.px.d10, a.px.e2), b.add - a.add)

\* whether the number got.up / got.down is the reciprocal of the number
\* of.up / of.down, for pixels up and integers down
IsReciprocal(got, of) ==
    /\ of.up.num # 0
    /\ PixelIs(Pixel(got.up.num * of.up.num, got.up.d10 + of.up.d10, got.up.e2 + of.up.e2),
               got.down * of.down)

\* whether every entry of the array got stands in relation Same(_, _) to the entry
\* of the array of at its place
EntryWise(got, of, Same(_, _)) ==
    /\ Len(got) = Len(of)
    /\ \A r \in 1..Len(got) :
          /\ Len(got[r]) = Len(of[r])
          /\ \A c \in 1..Len(got[r]) : Same(got[r][c], of[r][c])

\* C29: for a plain number k, k - img is the element-wise negation of img - k and
\* k / img is the element-wise reciprocal of img / k, wherever img - k and img / k
\* have a value; neither operation changes img.
C29_Reflected ==
    /\ rsub_result # NoResult
       => /\ CIAOImage_image(ciao_image) = z_height
          /\ CIAOImage_sub(ciao_image, rsub_result.other).exc = NoError
             => /\ rsub_result.result.exc = NoError
                /\ EntryWise(rsub_result.result.image,
                             CIAOImage_sub(ciao_image, rsub_result.other).image,
                             LAMBDA got, of : SameSum(got, Negated(of)))
    /\ rtruediv_result # NoResult
       => /\ CIAOImage_image(ciao_image) = z_height
          /\ CIAOImage_truediv(ciao_image, rtruediv_result.other).exc = NoError
             => /\ rtruediv_result.result.exc = NoError
                /\ EntryWise(rtruediv_result.result.image,
                             CIAOImage_truediv(ciao_image, rtruediv_result.other).image,
                             IsReciprocal)

\* the part of C29 that holds: the reflected operations leave img as it was
ReflectedKeepsImage ==
    (rsub_result # NoResult \/ rtruediv_result # NoResult)
    => CIAOImage_image(ciao_image) = z_height

\* k - img has a value that is not the negation of img - k
ReflectedSubWrong ==
    /\ rsub_result # NoResult
    /\ rsub_result.result.exc = NoError
    /\ ~EntryWise(rsub_result.result.image,
                  CIAOImage_sub(ciao_image, rsub_result.other).image,
                  LAMBDA got, of : SameSum(got, Negated(of)))

\* k / img has a value that is not the reciprocal of img / k
ReflectedTrueDivWrong ==
    /\ rtruediv_result # NoResult
    /\ rtruediv_result.result.exc = NoError
    /\ ~EntryWise(rtruediv_result.result.image,
                  CIAOImage_truediv(ciao_image, rtruediv_result.other).image,
                  IsReciprocal)

----------------------------------------------------------------------------
(* Properties of decoding the images in any order *)

\* image i decoded with no other image decoded, from the header as parsed
DecodedAlone(i) == CIAOImage(buffer, parse_header(buffer).header, i)

\* every image decoded so far is what it is when decoded alone, and the header is
\* the header as parsed
OrderFree ==
    /\ parsed_header = parse_header(buffer).header
    /\ \A i \in DOMAIN image_objects :
          /\ image_objects[i] # PendingObject => image_objects[i] = DecodedAlone(i)
          /\ image_arrays[i] # PendingArray
             => image_arrays[i] = CIAOImage_image(DecodedAlone(i))

\* a step leaves the buffer, the header and every image decoded before alone
OthersKept ==
    /\ buffer' = buffer
    /\ parsed_header' = parsed_header
    /\ \A i \in DOMAIN image_objects :
          /\ image_objects[i] # PendingObject => image_objects'[i] = image_objects[i]
          /\ image_arrays[i] # PendingArray => image_arrays'[i] = image_arrays[i]

====
